---- MODULE Spec2Model ----
(***************************************************************************)
(* The calendar pickers of mbanda1/date-picker as state machines:          *)
(*   DateOverlay           the single-date calendar (src/Basic)            *)
(*   DateRangeOverlay      the two-calendar range overlay (src/Range)      *)
(*   DateRangePickerInput  the input shell buffering a range until Apply   *)
(* One action is one event handler together with the re-render and the     *)
(* effects React runs after it, so every state is a settled state.         *)
(***************************************************************************)
EXTENDS Integers, Sequences, FiniteSets, TLC

VARIABLES
    mounted,            \* which component the host application rendered
    minDate, maxDate,   \* the bounds props (Undefined when not passed)
    now,                \* what new Date() returns
    defaultStartDate,   \* DateRangeOverlay's defaultStartDate prop
    startDate, endDate, \* DateRangeOverlay's startDate / endDate props
    overlay,            \* DateRangeOverlay's useState fields
    notified,           \* calls of DateRangeOverlay's onChange in the last step
    isOpen,             \* DateRangePickerInput: popover shown
    localStartDate,     \* DateRangePickerInput: buffered start
    localEndDate,       \* DateRangePickerInput: buffered end
    inputValue,         \* DateRangePickerInput: text shown in the input
    isLoading,          \* DateRangePickerInput's isLoading prop
    extStartDate,       \* DateRangePickerInput's startDate prop (consumer-owned)
    extEndDate,         \* DateRangePickerInput's endDate prop (consumer-owned)
    committed,          \* calls of DateRangePickerInput's onChange in the last step
    single,             \* DateOverlay's useState fields
    value,              \* DateOverlay's value prop
    showTimeSelect,     \* DateOverlay's showTimeSelect prop
    emitted,            \* calls of DateOverlay's onChange in the last step
    picked,             \* the last day and time picked on the DateOverlay
    timeList,           \* generateTimeOptions: its props, loop index and options
    navBudget,          \* navigation steps left in the run (-1: not counted)
    lastOp              \* the handler that ran in the last step, with its arguments

vars == <<mounted, minDate, maxDate, now, defaultStartDate, startDate, endDate,
          overlay, notified, isOpen, localStartDate, localEndDate, inputValue,
          isLoading, extStartDate, extEndDate, committed, single, value,
          showTimeSelect, emitted, picked, timeList, navBudget, lastOp>>

-----------------------------------------------------------------------------
(* Dates.  A JavaScript Date is an instant read in local time: calendar    *)
(* year, month index 0..11, day of month, hour, minute and the             *)
(* milliseconds within the minute.  Daylight saving shifts are not         *)
(* modelled.  null and undefined are two records no Date equals.           *)

D(y, m, d, h, mi, ms) == [y |-> y, m |-> m, d |-> d, h |-> h, mi |-> mi, ms |-> ms]

Day(y, m, d) == D(y, m, d, 0, 0, 0)

Null == D(0, 0, 0, 0, 0, 0)

Undefined == D(-1, 0, 0, 0, 0, 0)

\* JavaScript truthiness of a Date | null | undefined, and date-fns isValid
\* (invalid Date objects are not among the inputs)
IsDate(x) == x.y > 0

\* x || null
OrNull(x) == IF IsDate(x) THEN x ELSE Null

IsLeapYear(y) == (y % 4 = 0 /\ y % 100 # 0) \/ y % 400 = 0

DaysInMonth(y, m) ==
    IF m = 1 THEN (IF IsLeapYear(y) THEN 29 ELSE 28)
    ELSE IF m \in {3, 5, 8, 10} THEN 30 ELSE 31

DayKey(a) == a.y * 372 + a.m * 31 + a.d

TimeKey(a) == (a.h * 60 + a.mi) * 60000 + a.ms

isBefore(a, b) ==
    \/ DayKey(a) < DayKey(b)
    \/ DayKey(a) = DayKey(b) /\ TimeKey(a) < TimeKey(b)

isAfter(a, b) == isBefore(b, a)

isSameDay(a, b) == DayKey(a) = DayKey(b)

getYear(a) == a.y

startOfDay(a) == D(a.y, a.m, a.d, 0, 0, 0)

endOfDay(a) == D(a.y, a.m, a.d, 23, 59, 59999)

startOfMonth(a) == D(a.y, a.m, 1, 0, 0, 0)

endOfMonth(a) == D(a.y, a.m, DaysInMonth(a.y, a.m), 23, 59, 59999)

startOfYear(a) == D(a.y, 0, 1, 0, 0, 0)

endOfYear(a) == D(a.y, 11, 31, 23, 59, 59999)

\* date-fns addMonths: the day of month is capped at the target month's length
addMonths(a, n) ==
    LET t  == a.y * 12 + a.m + n
        y2 == t \div 12
        m2 == t % 12
        dm == DaysInMonth(y2, m2)
    IN  D(y2, m2, IF a.d > dm THEN dm ELSE a.d, a.h, a.mi, a.ms)

subMonths(a, n) == addMonths(a, 0 - n)

addYears(a, n) == addMonths(a, 12 * n)

subYears(a, n) == addMonths(a, 0 - 12 * n)

\* new Date(year, monthIndex, day): a month index outside 0..11 carries into
\* the year, a day beyond the month's length carries into the next month
NewDate(y, m, d) ==
    LET y2 == y + (m \div 12)
        m2 == m % 12
        dm == DaysInMonth(y2, m2)
    IN  IF d <= dm THEN D(y2, m2, d, 0, 0, 0)
        ELSE D(y2 + ((m2 + 1) \div 12), (m2 + 1) % 12, d - dm, 0, 0, 0)

\* Date.prototype.setMonth(monthIndex): keeps the day of month and the time,
\* and overflows into the next month when the day does not exist
setMonth(a, monthIndex) ==
    LET n == NewDate(a.y, monthIndex, a.d)
    IN  D(n.y, n.m, n.d, a.h, a.mi, a.ms)

\* Date.prototype.setFullYear(year): 29 February overflows to 1 March
setFullYear(a, year) ==
    LET n == NewDate(year, a.m, a.d)
    IN  D(n.y, n.m, n.d, a.h, a.mi, a.ms)

\* days since 0001-01-01 (which is day 1, a Monday)
Ordinal(a) ==
    LET y1 == a.y - 1
        before[m \in 0..11] ==
            IF m = 0 THEN 0 ELSE before[m - 1] + DaysInMonth(a.y, m - 1)
    IN  365 * y1 + (y1 \div 4) - (y1 \div 100) + (y1 \div 400) + before[a.m] + a.d

\* Date.prototype.getDay(): 0 is Sunday
getDay(a) == Ordinal(a) % 7

PrevDay(a) ==
    IF a.d > 1 THEN D(a.y, a.m, a.d - 1, a.h, a.mi, a.ms)
    ELSE LET p == addMonths(D(a.y, a.m, 1, a.h, a.mi, a.ms), -1)
         IN  D(p.y, p.m, DaysInMonth(p.y, p.m), a.h, a.mi, a.ms)

NextDay(a) ==
    IF a.d < DaysInMonth(a.y, a.m) THEN D(a.y, a.m, a.d + 1, a.h, a.mi, a.ms)
    ELSE LET p == addMonths(D(a.y, a.m, 1, a.h, a.mi, a.ms), 1)
         IN  D(p.y, p.m, 1, a.h, a.mi, a.ms)

RECURSIVE subDays(_, _)
subDays(a, n) == IF n = 0 THEN a ELSE subDays(PrevDay(a), n - 1)

RECURSIVE addDays(_, _)
addDays(a, n) == IF n = 0 THEN a ELSE addDays(NextDay(a), n - 1)

\* faulty variant of startOfWeek: the time of day is kept
startOfWeek_KeepsTime(a) == subDays(a, getDay(a))

\* startOfWeek / endOfWeek with { weekStartsOn: 0 }
startOfWeek(a) == startOfDay(subDays(a, getDay(a)))

endOfWeek(a) == endOfDay(addDays(a, 6 - getDay(a)))

\* format(date, 'yyyy MMM d'): the calendar day, the time of day is dropped
format(a) == <<a.y, a.m, a.d>>

-----------------------------------------------------------------------------
(* Bounds of the model.  Without bounds props the calendars can be         *)
(* navigated without end; such a run, and a run of DateRangePickerInput,   *)
(* is cut off after MaxNavigations navigation steps that changed what is   *)
(* displayed.                                                              *)

MaxNavigations == 2

-----------------------------------------------------------------------------
(* DateRangeOverlay *)

normalizeDate(date, isEnd) ==
    IF ~IsDate(date) THEN Undefined
    ELSE IF isEnd THEN endOfDay(date) ELSE startOfDay(date)

normalizedMinDate == normalizeDate(minDate, FALSE)

normalizedMaxDate == normalizeDate(maxDate, TRUE)

getYearRange(date) ==
    LET start == (getYear(date) \div 12) * 12
    IN  [start |-> start, end |-> start + 11]

\* clamp of a default date into the bounds (lines 72-80 and 82-89)
ClampIntoBounds(date) ==
    IF IsDate(normalizedMinDate) /\ isBefore(date, normalizedMinDate)
    THEN normalizedMinDate
    ELSE IF IsDate(normalizedMaxDate) /\ isAfter(date, normalizedMaxDate)
    THEN normalizedMaxDate
    ELSE date

initLeftDate(sd) ==
    IF IsDate(sd) THEN sd
    ELSE IF IsDate(defaultStartDate) THEN ClampIntoBounds(defaultStartDate)
    ELSE ClampIntoBounds(now)

\* the useState initialisers, evaluated with the props of the first render
InitialOverlay(sd, ed) ==
    [leftCurrentDate   |-> initLeftDate(sd),
     rightCurrentDate  |-> addMonths(initLeftDate(sd), 1),
     selectedStartDate |-> OrNull(sd),
     selectedEndDate   |-> OrNull(ed),
     hoverDate         |-> Null,
     selectionPhase    |-> IF IsDate(sd) THEN "end" ELSE "start",
     leftView          |-> "days",
     rightView         |-> "days",
     leftYearRange     |-> getYearRange(initLeftDate(sd)),
     rightYearRange    |-> getYearRange(addMonths(initLeftDate(sd), 1)),
     activeSpecialView |-> "null"]

\* what the overlay variable holds while no DateRangeOverlay is mounted
NoOverlay ==
    [leftCurrentDate   |-> Null,
     rightCurrentDate  |-> Null,
     selectedStartDate |-> Null,
     selectedEndDate   |-> Null,
     hoverDate         |-> Null,
     selectionPhase    |-> "start",
     leftView          |-> "days",
     rightView         |-> "days",
     leftYearRange     |-> [start |-> 0, end |-> 0],
     rightYearRange    |-> [start |-> 0, end |-> 0],
     activeSpecialView |-> "null"]

\* faulty variant of SyncStartDate: a cleared startDate prop does not reset
\* the phase
SyncStartDate_KeepsPhase(o, sd) ==
    IF IsDate(sd)
    THEN [o EXCEPT !.selectedStartDate = sd, !.selectionPhase = "end"]
    ELSE IF sd = Null
    THEN [o EXCEPT !.selectedStartDate = Null]
    ELSE o

\* useEffect(..., [startDate]) body
SyncStartDate(o, sd) ==
    IF IsDate(sd)
    THEN [o EXCEPT !.selectedStartDate = sd, !.selectionPhase = "end"]
    ELSE IF sd = Null
    THEN [o EXCEPT !.selectedStartDate = Null, !.selectionPhase = "start"]
    ELSE o

\* useEffect(..., [endDate]) body
SyncEndDate(o, ed) ==
    IF IsDate(ed) THEN [o EXCEPT !.selectedEndDate = ed]
    ELSE IF ed = Null THEN [o EXCEPT !.selectedEndDate = Null]
    ELSE o

\* faulty variant of KeepRightInSync: the effect does nothing
KeepRightInSync_Never(o) == o

\* useEffect(..., [leftCurrentDate]) body; every setLeftCurrentDate call of
\* the component passes a newly built Date, so the effect runs after each
KeepRightInSync(o) ==
    [o EXCEPT !.rightCurrentDate = addMonths(o.leftCurrentDate, 1)]

\* React compares effect dependencies with Object.is: a prop effect runs when
\* the prop is another object than in the previous render.  fresh says that
\* the new prop is a newly created Date rather than the object passed before.
DepChanged(old, new, fresh) == new # old \/ (fresh /\ IsDate(new))

\* the re-render of a mounted overlay with new props
SyncProps(o, oldS, newS, freshS, oldE, newE, freshE) ==
    LET o1 == IF DepChanged(oldS, newS, freshS) THEN SyncStartDate(o, newS) ELSE o
    IN  IF DepChanged(oldE, newE, freshE) THEN SyncEndDate(o1, newE) ELSE o1

\* first render and the effects that run after it
MountOverlay(sd, ed) ==
    KeepRightInSync(SyncEndDate(SyncStartDate(InitialOverlay(sd, ed), sd), ed))

canNavigate(o) ==
    LET prevMonth == subMonths(o.leftCurrentDate, 1)
        nextMonth == addMonths(o.rightCurrentDate, 1)
        prevYear  == subYears(o.leftCurrentDate, 1)
        nextYear  == addYears(o.rightCurrentDate, 1)
    IN  [prevMonth |-> \/ ~IsDate(normalizedMinDate)
                       \/ ~isBefore(endOfMonth(prevMonth), normalizedMinDate),
         nextMonth |-> \/ ~IsDate(normalizedMaxDate)
                       \/ ~isAfter(startOfMonth(nextMonth), normalizedMaxDate),
         prevYear  |-> \/ ~IsDate(normalizedMinDate)
                       \/ ~isBefore(prevYear, normalizedMinDate),
         nextYear  |-> \/ ~IsDate(normalizedMaxDate)
                       \/ ~isAfter(nextYear, normalizedMaxDate),
         prevYearRange |-> \/ ~IsDate(normalizedMinDate)
                           \/ getYear(normalizedMinDate) <= o.leftYearRange.start - 12,
         nextYearRange |-> \/ ~IsDate(normalizedMaxDate)
                           \/ getYear(normalizedMaxDate) >= o.leftYearRange.end + 12]

\* faulty variant of isDateInRange: the upper bound is not tested
isDateInRange_NoMax(date) ==
    ~(IsDate(normalizedMinDate) /\ isBefore(date, normalizedMinDate))

isDateInRange(date) ==
    IF IsDate(normalizedMinDate) /\ isBefore(date, normalizedMinDate) THEN FALSE
    ELSE IF IsDate(normalizedMaxDate) /\ isAfter(date, normalizedMaxDate) THEN FALSE
    ELSE TRUE

isYearSelectable(year) ==
    IF IsDate(normalizedMinDate) /\ year < getYear(normalizedMinDate) THEN FALSE
    ELSE IF IsDate(normalizedMaxDate) /\ year > getYear(normalizedMaxDate) THEN FALSE
    ELSE TRUE

ShiftRange(range, by) == [start |-> range.start + by, end |-> range.end + by]

handleNavigation(o, direction) ==
    IF o.activeSpecialView # "null" THEN
        LET left == o.activeSpecialView = "left"
            view == IF left THEN o.leftView ELSE o.rightView
        IN  IF view = "months" THEN
                IF direction = "prev" /\ canNavigate(o).prevYear THEN
                    IF left
                    THEN KeepRightInSync(
                             [o EXCEPT !.leftCurrentDate = subYears(@, 1)])
                    ELSE [o EXCEPT !.rightCurrentDate = subYears(@, 1)]
                ELSE IF direction = "next" /\ canNavigate(o).nextYear THEN
                    IF left
                    THEN KeepRightInSync(
                             [o EXCEPT !.leftCurrentDate = addYears(@, 1)])
                    ELSE [o EXCEPT !.rightCurrentDate = addYears(@, 1)]
                ELSE o
            ELSE IF view = "years" THEN
                IF direction = "prev" /\ canNavigate(o).prevYearRange THEN
                    IF left
                    THEN [o EXCEPT !.leftYearRange = ShiftRange(@, -12)]
                    ELSE [o EXCEPT !.rightYearRange = ShiftRange(@, -12)]
                ELSE IF direction = "next" /\ canNavigate(o).nextYearRange THEN
                    IF left
                    THEN [o EXCEPT !.leftYearRange = ShiftRange(@, 12)]
                    ELSE [o EXCEPT !.rightYearRange = ShiftRange(@, 12)]
                ELSE o
            ELSE o
    ELSE
        IF direction = "prev" /\ canNavigate(o).prevMonth
        THEN KeepRightInSync([o EXCEPT !.leftCurrentDate = subMonths(@, 1)])
        ELSE IF direction = "next" /\ canNavigate(o).nextMonth
        THEN KeepRightInSync([o EXCEPT !.leftCurrentDate = addMonths(@, 1)])
        ELSE o

\* faulty variant of toggleView: leaving the years view keeps the marker
toggleView_KeepsMarker(o, side) ==
    IF side = "left" THEN
        IF o.leftView = "days"
        THEN [o EXCEPT !.leftView = "months", !.activeSpecialView = "left"]
        ELSE IF o.leftView = "months"
        THEN [o EXCEPT !.leftYearRange = getYearRange(o.leftCurrentDate),
                       !.leftView = "years",
                       !.activeSpecialView = "left"]
        ELSE [o EXCEPT !.leftView = "days"]
    ELSE
        IF o.rightView = "days"
        THEN [o EXCEPT !.rightView = "months", !.activeSpecialView = "right"]
        ELSE IF o.rightView = "months"
        THEN [o EXCEPT !.rightYearRange = getYearRange(o.rightCurrentDate),
                       !.rightView = "years",
                       !.activeSpecialView = "right"]
        ELSE [o EXCEPT !.rightView = "days"]

toggleView(o, side) ==
    IF side = "left" THEN
        IF o.leftView = "days"
        THEN [o EXCEPT !.leftView = "months", !.activeSpecialView = "left"]
        ELSE IF o.leftView = "months"
        THEN [o EXCEPT !.leftYearRange = getYearRange(o.leftCurrentDate),
                       !.leftView = "years",
                       !.activeSpecialView = "left"]
        ELSE [o EXCEPT !.leftView = "days", !.activeSpecialView = "null"]
    ELSE
        IF o.rightView = "days"
        THEN [o EXCEPT !.rightView = "months", !.activeSpecialView = "right"]
        ELSE IF o.rightView = "months"
        THEN [o EXCEPT !.rightYearRange = getYearRange(o.rightCurrentDate),
                       !.rightView = "years",
                       !.activeSpecialView = "right"]
        ELSE [o EXCEPT !.rightView = "days", !.activeSpecialView = "null"]

\* one onChange call, and whether each argument is a newly created Date
\* (the clicked day) or an object the component already held
Call(s, e) == [startDate |-> s, endDate |-> e]

Fresh(s, e) == [startDate |-> s, endDate |-> e]

Silent(o) == [state |-> o, calls |-> <<>>, fresh |-> <<>>]

\* faulty variant of StartNewSelection: the previous end is not cleared
StartNewSelection_KeepsEnd(o, date) ==
    [state |-> [o EXCEPT !.selectedStartDate = date,
                         !.selectionPhase = "end"],
     calls |-> <<Call(date, o.selectedEndDate)>>,
     fresh |-> <<Fresh(TRUE, FALSE)>>]

\* phase 'start': starting a new selection
StartNewSelection(o, date) ==
    [state |-> [o EXCEPT !.selectedStartDate = date,
                         !.selectedEndDate = Null,
                         !.selectionPhase = "end"],
     calls |-> <<Call(date, Null)>>,
     fresh |-> <<Fresh(TRUE, FALSE)>>]

\* phase 'end', date before the start: the date becomes the start
ReplaceStartDate(o, date) ==
    [state |-> [o EXCEPT !.selectedStartDate = date,
                         !.selectionPhase = "start"],
     calls |-> <<Call(date, o.selectedEndDate)>>,
     fresh |-> <<Fresh(TRUE, FALSE)>>]

\* faulty variant of SetAsEndDate: the phase is not reset
SetAsEndDate_StaysInEnd(o, date) ==
    [state |-> [o EXCEPT !.selectedEndDate = date],
     calls |-> <<Call(o.selectedStartDate, date)>>,
     fresh |-> <<Fresh(FALSE, TRUE)>>]

\* phase 'end', date not before the start: the date becomes the end
SetAsEndDate(o, date) ==
    [state |-> [o EXCEPT !.selectedEndDate = date,
                         !.selectionPhase = "start"],
     calls |-> <<Call(o.selectedStartDate, date)>>,
     fresh |-> <<Fresh(FALSE, TRUE)>>]

\* phase 'end' without a start
StartWithoutAnchor(o, date) ==
    [state |-> [o EXCEPT !.selectedStartDate = date,
                         !.selectionPhase = "end"],
     calls |-> <<Call(date, Null)>>,
     fresh |-> <<Fresh(TRUE, FALSE)>>]

\* faulty variant of handleDateSelect: in phase 'end' the date becomes the end
\* whether or not it is before the start
handleDateSelect_AnyEnd(o, date) ==
    IF ~isDateInRange(date) THEN Silent(o)
    ELSE IF o.selectionPhase = "start" THEN StartNewSelection(o, date)
    ELSE IF IsDate(o.selectedStartDate) THEN SetAsEndDate(o, date)
    ELSE StartWithoutAnchor(o, date)

handleDateSelect(o, date) ==
    IF ~isDateInRange(date) THEN Silent(o)
    ELSE IF o.selectionPhase = "start" THEN StartNewSelection(o, date)
    ELSE IF IsDate(o.selectedStartDate) THEN
        IF isBefore(date, o.selectedStartDate)
        THEN ReplaceStartDate(o, date)
        ELSE SetAsEndDate(o, date)
    ELSE StartWithoutAnchor(o, date)

\* isWithinInterval(day, { start, end }): a comparison of instants
isWithinInterval(day, start, end) == ~isBefore(day, start) /\ ~isAfter(day, end)

\* faulty variant of isInSelectedRange: with both ends selected the instants
\* are compared
isInSelectedRange_ByInstant(o, day) ==
    IF ~IsDate(o.selectedStartDate) THEN FALSE
    ELSE IF IsDate(o.selectedEndDate)
    THEN isWithinInterval(day, o.selectedStartDate, o.selectedEndDate)
    ELSE isSameDay(day, o.selectedStartDate)

\* faulty variant of handleDateHover: the hover date is recorded in any phase
handleDateHover_Always(o, date) == [o EXCEPT !.hoverDate = date]

isInSelectedRange(o, day) ==
    IF ~IsDate(o.selectedStartDate) THEN FALSE
    ELSE IF IsDate(o.selectedEndDate)
    THEN LET normalizedDay == startOfDay(day)
             normalizedStart == startOfDay(o.selectedStartDate)
             normalizedEnd == startOfDay(o.selectedEndDate)
         IN  /\ \/ isAfter(normalizedDay, normalizedStart)
                \/ isSameDay(day, o.selectedStartDate)
             /\ \/ isBefore(normalizedDay, normalizedEnd)
                \/ isSameDay(day, o.selectedEndDate)
    ELSE IF o.selectionPhase = "end" /\ IsDate(o.hoverDate)
    THEN IF isBefore(o.hoverDate, o.selectedStartDate)
         THEN isWithinInterval(day, o.hoverDate, o.selectedStartDate)
         ELSE isWithinInterval(day, o.selectedStartDate, o.hoverDate)
    ELSE isSameDay(day, o.selectedStartDate)

handleDateHover(o, date) ==
    IF o.selectionPhase = "end" /\ IsDate(o.selectedStartDate)
    THEN [o EXCEPT !.hoverDate = date]
    ELSE o

\* DaysGrid onMouseLeave
handleMouseLeave(o) == [o EXCEPT !.hoverDate = Null]

\* the clamp shared by the month and year selection handlers
SnapIntoBounds(newDate) ==
    IF IsDate(normalizedMinDate) /\ isBefore(newDate, normalizedMinDate)
    THEN normalizedMinDate
    ELSE IF IsDate(normalizedMaxDate) /\ isAfter(newDate, normalizedMaxDate)
    THEN normalizedMaxDate
    ELSE newDate

handleMonthSelect(o, side, monthIndex) ==
    IF side = "left" THEN
        LET newDate == SnapIntoBounds(setMonth(o.leftCurrentDate, monthIndex))
        IN  KeepRightInSync([o EXCEPT !.leftCurrentDate = newDate,
                                      !.leftView = "days",
                                      !.activeSpecialView = "null"])
    ELSE
        LET newDate == SnapIntoBounds(setMonth(o.rightCurrentDate, monthIndex))
            o1 == [o EXCEPT !.rightCurrentDate = newDate,
                            !.rightView = "days",
                            !.activeSpecialView = "null"]
        IN  IF isBefore(NewDate(newDate.y, newDate.m, 1),
                        NewDate(o.leftCurrentDate.y, o.leftCurrentDate.m + 1, 1))
            THEN KeepRightInSync(
                     [o1 EXCEPT !.leftCurrentDate =
                                    NewDate(newDate.y, newDate.m - 1, 1)])
            ELSE o1

handleYearSelect(o, side, year) ==
    IF ~isYearSelectable(year) THEN o
    ELSE IF side = "left" THEN
        LET newDate == SnapIntoBounds(setFullYear(o.leftCurrentDate, year))
        IN  KeepRightInSync([o EXCEPT !.leftCurrentDate = newDate,
                                      !.leftView = "days",
                                      !.activeSpecialView = "null"])
    ELSE IF IsDate(o.selectedStartDate) /\ year < getYear(o.selectedStartDate)
    THEN o
    ELSE
        LET snapped == SnapIntoBounds(setFullYear(o.rightCurrentDate, year))
            newDate == IF isBefore(snapped, addMonths(o.leftCurrentDate, 1))
                       THEN addMonths(o.leftCurrentDate, 1)
                       ELSE snapped
        IN  [o EXCEPT !.rightCurrentDate = newDate,
                      !.rightView = "days",
                      !.activeSpecialView = "null"]

-----------------------------------------------------------------------------
(* DateOverlay, the single-date calendar.  Its state is the record          *)
(*   [currentDate, selectedDate, view, yearRange, selectedTime]             *)
(* and a time string 'HH:mm' is the pair <<hours, minutes>>, null is <<>>.  *)

\* faulty variant of DO_normalizedMinDate: minDate is compared as it was given
DO_normalizedMinDate_AsGiven == IF IsDate(minDate) THEN minDate ELSE Undefined

DO_normalizedMinDate == IF IsDate(minDate) THEN startOfDay(minDate) ELSE Undefined

DO_normalizedMaxDate == IF IsDate(maxDate) THEN endOfDay(maxDate) ELSE Undefined

NoTime == <<>>

\* formatDate(value, 'HH:mm')
formatDate(a) == <<a.h, a.mi>>

\* the window of twelve years useState and toggleViewYears compute
DO_yearRange(date) ==
    LET start == (getYear(date) \div 12) * 12
    IN  [start |-> start, end |-> start + 11]

\* faulty variant of DO_InitialState: the displayed date is taken from the
\* default date even when a value is passed
DO_InitialState_IgnoresValue(v) ==
    LET defaultValue == now
        cur == IF IsDate(DO_normalizedMinDate)
                  /\ isBefore(defaultValue, DO_normalizedMinDate)
               THEN DO_normalizedMinDate
               ELSE IF IsDate(DO_normalizedMaxDate)
                       /\ isAfter(defaultValue, DO_normalizedMaxDate)
               THEN DO_normalizedMaxDate
               ELSE defaultValue
    IN  [currentDate  |-> cur,
         selectedDate |-> OrNull(v),
         view         |-> "days",
         yearRange    |-> DO_yearRange(cur),
         selectedTime |-> IF IsDate(v) THEN formatDate(v) ELSE NoTime]

\* the useState initialisers; defaultValue defaults to new Date()
DO_InitialState(v) ==
    LET defaultValue == now
        cur == IF IsDate(v) THEN v
               ELSE IF IsDate(DO_normalizedMinDate)
                       /\ isBefore(defaultValue, DO_normalizedMinDate)
               THEN DO_normalizedMinDate
               ELSE IF IsDate(DO_normalizedMaxDate)
                       /\ isAfter(defaultValue, DO_normalizedMaxDate)
               THEN DO_normalizedMaxDate
               ELSE defaultValue
    IN  [currentDate  |-> cur,
         selectedDate |-> OrNull(v),
         view         |-> "days",
         yearRange    |-> DO_yearRange(cur),
         selectedTime |-> IF IsDate(v) THEN formatDate(v) ELSE NoTime]

\* useEffect(..., [value]) body
DO_SyncValue(s, v) ==
    IF IsDate(v)
    THEN [s EXCEPT !.selectedDate = v, !.currentDate = v,
                   !.selectedTime = formatDate(v)]
    ELSE IF v = Null
    THEN [s EXCEPT !.selectedDate = Null, !.selectedTime = NoTime]
    ELSE s

DO_isDateInRange(date) ==
    /\ ~(IsDate(DO_normalizedMinDate) /\ isBefore(date, DO_normalizedMinDate))
    /\ ~(IsDate(DO_normalizedMaxDate) /\ isAfter(date, DO_normalizedMaxDate))

\* faulty variant of canNavigateToPrevMonth: min is not looked at
canNavigateToPrevMonth_Always(s) == IsDate(s.currentDate)

canNavigateToPrevMonth(s) ==
    \/ ~IsDate(DO_normalizedMinDate)
    \/ ~isBefore(endOfMonth(subMonths(s.currentDate, 1)), DO_normalizedMinDate)

canNavigateToNextMonth(s) ==
    \/ ~IsDate(DO_normalizedMaxDate)
    \/ ~isAfter(startOfMonth(addMonths(s.currentDate, 1)), DO_normalizedMaxDate)

canNavigateToPrevYearRange(s) ==
    \/ ~IsDate(DO_normalizedMinDate)
    \/ s.yearRange.start - 12 >= getYear(DO_normalizedMinDate)

canNavigateToNextYearRange(s) ==
    \/ ~IsDate(DO_normalizedMaxDate)
    \/ s.yearRange.end + 1 <= getYear(DO_normalizedMaxDate)

\* faulty variant of nextMonth: the next month is shown whatever max is
nextMonth_Unguarded(s) == [s EXCEPT !.currentDate = addMonths(s.currentDate, 1)]

nextMonth(s) ==
    IF canNavigateToNextMonth(s)
    THEN [s EXCEPT !.currentDate = addMonths(s.currentDate, 1)] ELSE s

prevMonth(s) ==
    IF canNavigateToPrevMonth(s)
    THEN [s EXCEPT !.currentDate = subMonths(s.currentDate, 1)] ELSE s

nextYearRange(s) ==
    IF canNavigateToNextYearRange(s)
    THEN [s EXCEPT !.yearRange = [start |-> s.yearRange.end + 1,
                                  end   |-> s.yearRange.end + 12]]
    ELSE s

prevYearRange(s) ==
    IF canNavigateToPrevYearRange(s)
    THEN [s EXCEPT !.yearRange = [start |-> s.yearRange.start - 12,
                                  end   |-> s.yearRange.start - 1]]
    ELSE s

handlePrev(s) ==
    IF s.view = "days" THEN prevMonth(s)
    ELSE IF s.view = "months"
    THEN LET prevYear == getYear(s.currentDate) - 1
         IN  IF ~IsDate(DO_normalizedMinDate)
                \/ prevYear >= getYear(DO_normalizedMinDate)
             THEN [s EXCEPT !.currentDate = NewDate(prevYear, 0, 1)]
             ELSE s
    ELSE prevYearRange(s)

handleNext(s) ==
    IF s.view = "days" THEN nextMonth(s)
    ELSE IF s.view = "months"
    THEN LET nextYear == getYear(s.currentDate) + 1
         IN  IF ~IsDate(DO_normalizedMaxDate)
                \/ nextYear <= getYear(DO_normalizedMaxDate)
             THEN [s EXCEPT !.currentDate = NewDate(nextYear, 0, 1)]
             ELSE s
    ELSE nextYearRange(s)

toggleViewMonths(s) == [s EXCEPT !.view = "months"]

toggleViewYears(s) ==
    [s EXCEPT !.view = "years", !.yearRange = DO_yearRange(s.currentDate)]

\* a handler's outcome: the state it leaves and its onChange calls
DO_Result(s, calls) == [state |-> s, calls |-> calls]

\* faulty variant of DO_handleDateSelect: onChange is called whether or not
\* time selection is enabled
DO_handleDateSelect_AlwaysNotifies(s, date) ==
    IF DO_isDateInRange(date)
    THEN DO_Result([s EXCEPT !.selectedDate = date, !.currentDate = date],
                   <<date>>)
    ELSE DO_Result(s, <<>>)

DO_handleDateSelect(s, date) ==
    IF DO_isDateInRange(date)
    THEN DO_Result([s EXCEPT !.selectedDate = date, !.currentDate = date],
                   IF ~showTimeSelect THEN <<date>> ELSE <<>>)
    ELSE DO_Result(s, <<>>)

\* faulty variant of DO_isYearSelectable: every year is selectable
DO_isYearSelectable_Always(year) == year = year

DO_isYearSelectable(year) ==
    /\ ~(IsDate(DO_normalizedMinDate) /\ year < getYear(DO_normalizedMinDate))
    /\ ~(IsDate(DO_normalizedMaxDate) /\ year > getYear(DO_normalizedMaxDate))

\* faulty variant of DO_SnapIntoBounds: the date is taken as it is
DO_SnapIntoBounds_Never(newDate) == newDate

\* the clamp shared by handleYearSelect and handleMonthSelect
DO_SnapIntoBounds(newDate) ==
    IF IsDate(DO_normalizedMinDate) /\ isBefore(newDate, DO_normalizedMinDate)
    THEN DO_normalizedMinDate
    ELSE IF IsDate(DO_normalizedMaxDate) /\ isAfter(newDate, DO_normalizedMaxDate)
    THEN DO_normalizedMaxDate
    ELSE newDate

DO_handleYearSelect(s, year) ==
    IF DO_isYearSelectable(year)
    THEN [s EXCEPT !.currentDate = DO_SnapIntoBounds(setFullYear(s.currentDate, year)),
                   !.view = "days"]
    ELSE s

\* faulty variant of DO_handleMonthSelect: the date it displays is selected
DO_handleMonthSelect_Selects(s, monthIndex) ==
    [s EXCEPT !.currentDate = DO_SnapIntoBounds(setMonth(s.currentDate, monthIndex)),
              !.selectedDate = DO_SnapIntoBounds(setMonth(s.currentDate, monthIndex)),
              !.view = "days"]

DO_handleMonthSelect(s, monthIndex) ==
    [s EXCEPT !.currentDate = DO_SnapIntoBounds(setMonth(s.currentDate, monthIndex)),
              !.view = "days"]

\* setMinutes(setHours(date, hours), minutes)
combineDateAndTime(date, timeString) ==
    [date EXCEPT !.h = timeString[1], !.mi = timeString[2]]

handleTimeSelect(s, timeString) ==
    DO_Result([s EXCEPT !.selectedTime = timeString],
              IF IsDate(s.selectedDate)
              THEN <<combineDateAndTime(s.selectedDate, timeString)>>
              ELSE <<>>)

handleSelectToday(s) ==
    LET today == now
    IN  IF DO_isDateInRange(today)
        THEN DO_Result([s EXCEPT !.selectedDate = today, !.currentDate = today,
                                 !.view = "days"],
                       IF ~showTimeSelect THEN <<today>> ELSE <<>>)
        ELSE DO_Result(s, <<>>)

\* minTime.split(':').map(Number), as minHours * 60 + minMinutes
MinutesOf(timeString) == timeString[1] * 60 + timeString[2]

\* the % operator of JavaScript, whose result has the sign of the dividend
Remainder(a, b) == IF a >= 0 THEN a % b ELSE 0 - ((0 - a) % b)

\* the value of the option pushed for loop index i: hours = floor(i / 60)
\* and minutes = i % 60, each padded to two digits
TimeOption(i) == <<i \div 60, Remainder(i, 60)>>

\* the number of options the memory of the page holds: the push that would
\* exceed it ends the script with an allocation failure
MaxOptions == 100

\* generateTimeOptions before a call, for the given props
TimeListOf(minTime, maxTime, timeInterval) ==
    [minTime |-> minTime, maxTime |-> maxTime, timeInterval |-> timeInterval,
     pc |-> "idle", i |-> 0, options |-> <<>>]

\* the defaults of minTime, maxTime and timeInterval
NoTimeList == TimeListOf(<<0, 0>>, <<23, 59>>, 30)

\* options = [] and let i = startMinutes
EnterLoop(t) ==
    [t EXCEPT !.pc = "loop", !.i = MinutesOf(t.minTime), !.options = <<>>]

\* faulty variant of LoopCondition: the loop stops before endMinutes
LoopCondition_Exclusive(t) == t.i < MinutesOf(t.maxTime)

\* i <= endMinutes
LoopCondition(t) == t.i <= MinutesOf(t.maxTime)

\* one test of the loop condition: a pass through the body with i +=
\* timeInterval, or the exit to return options
Iterate(t) ==
    IF LoopCondition(t)
    THEN IF Len(t.options) >= MaxOptions
         THEN [t EXCEPT !.pc = "crashed"]
         ELSE [t EXCEPT !.options = Append(@, TimeOption(t.i)),
                        !.i = @ + t.timeInterval]
    ELSE [t EXCEPT !.pc = "done"]

-----------------------------------------------------------------------------
(* DateRangePresets *)

PresetLabels ==
    {"Today", "Yesterday", "This Week", "Last Week", "Last 7 Days",
     "This Month", "Last 3 Months", "This Year", "Last Year"}

\* presets[label].getRange(), with today = new Date()
getRange(label, today) ==
    IF label = "Today" THEN Call(startOfDay(today), endOfDay(today))
    ELSE IF label = "Yesterday"
    THEN Call(startOfDay(subDays(today, 1)), endOfDay(subDays(today, 1)))
    ELSE IF label = "This Week" THEN Call(startOfWeek(today), endOfWeek(today))
    ELSE IF label = "Last Week"
    THEN Call(subDays(startOfWeek(today), 7), subDays(endOfWeek(today), 7))
    ELSE IF label = "Last 7 Days"
    THEN Call(startOfDay(subDays(today, 6)), endOfDay(today))
    ELSE IF label = "This Month" THEN Call(startOfMonth(today), endOfMonth(today))
    ELSE IF label = "Last 3 Months"
    THEN Call(startOfDay(subMonths(today, 3)), endOfDay(today))
    ELSE IF label = "This Year" THEN Call(startOfYear(today), endOfYear(today))
    ELSE Call(startOfYear(subYears(today, 1)), endOfYear(subYears(today, 1)))

-----------------------------------------------------------------------------
(* DateRangePickerInput *)

\* the text the input shows for a pair: '', 'start' or 'start - end'
FormatPair(s, e) ==
    IF IsDate(s) THEN (IF IsDate(e) THEN <<format(s), format(e)>> ELSE <<format(s)>>)
    ELSE <<>>

\* useEffect(..., [startDate, endDate, dateFormat]) body
SyncInputValue(s, e, old) ==
    IF IsDate(s) THEN FormatPair(s, e)
    ELSE IF s = Null /\ e = Null THEN <<>>
    ELSE old

\* faulty variant of ApplyDisabled: isLoading is not tested
ApplyDisabled_IgnoresLoading == ~IsDate(localStartDate) \/ ~IsDate(localEndDate)

\* isDisabled of the Apply button
ApplyDisabled == ~IsDate(localStartDate) \/ ~IsDate(localEndDate) \/ isLoading

\* the condition under which the clear icon is rendered (isDisabled is false
\* and showClearIcon is true, their defaults)
ClearShown == inputValue # <<>>

\* faulty variant of handleDateChange: every change is passed on to the consumer
handleDateChange_Commits(dates) ==
    [localStartDate |-> dates.startDate,
     localEndDate   |-> dates.endDate,
     calls          |-> <<dates>>]

\* handleDateChange: the buffer it leaves and its calls of the external onChange
handleDateChange(dates) ==
    [localStartDate |-> dates.startDate,
     localEndDate   |-> dates.endDate,
     calls          |-> <<>>]

\* the revert shared by handleCancel and the useOutsideClick handler
RevertIfOnlyStart ==
    IF IsDate(localStartDate) /\ ~IsDate(localEndDate)
    THEN Call(OrNull(extStartDate), OrNull(extEndDate))
    ELSE Call(localStartDate, localEndDate)

-----------------------------------------------------------------------------
(* DatePickerInput.  Its text is what format(date, 'yyyy-MM-dd') returns, *)
(* the triple <<year, month, day>>, or <<>> for the empty string.          *)

\* value && isValid(value) ? format(value, dateFormat) : ''
FormatValue(v) == IF IsDate(v) THEN format(v) ELSE <<>>

\* parse(inputValue, dateFormat, new Date()): local midnight of the day named
parse(text) == D(text[1], text[2], text[3], 0, 0, 0)

\* inRange of handleKeyDown: the props minDate / maxDate as they were given
inRange(parsedDate) ==
    /\ ~IsDate(minDate) \/ ~isBefore(parsedDate, minDate)
    /\ ~IsDate(maxDate) \/ ~isAfter(parsedDate, maxDate)

\* handleDateChange of DatePickerInput: its call of the external onChange,
\* the text and the popover state it leaves
DPI_handleDateChange(date) ==
    [calls |-> <<date>>, inputValue |-> FormatValue(date), isOpen |-> FALSE]

-----------------------------------------------------------------------------
(* Inputs of the model *)

\* the clock: Wednesday 31 January 2024, 10:30:15
Clock == D(2024, 0, 31, 10, 30, 15000)

\* the bounds props of the selection runs: 20 January to 20 March 2024
TightMin == D(2024, 0, 20, 8, 0, 0)

TightMax == D(2024, 2, 20, 8, 0, 0)

\* the days a click can name: before the bounds, two inside, after them
PickDates == {Day(2024, 0, 10), Day(2024, 0, 25), Day(2024, 1, 14), Day(2024, 3, 2)}

HoverDates == {Day(2024, 0, 25), Day(2024, 1, 14)}

\* the startDate / endDate props a parent passes to a bare DateRangeOverlay
RangeProps ==
    {<<Undefined, Undefined>>,
     <<Day(2024, 0, 25), Null>>, <<Day(2024, 0, 25), Day(2024, 1, 14)>>}

Op(name, side, date, n) == [op |-> name, side |-> side, date |-> date, n |-> n]

\* navBudget is Unlimited in the runs of a bare calendar whose bounds props
\* limit navigation
Unlimited == 0 - 1

\* a navigation step from display o to display o2 is within the budget
WithinBudget(o, o2) ==
    /\ o2 # o => navBudget # 0
    /\ navBudget' = IF o2 # o /\ navBudget > 0 THEN navBudget - 1 ELSE navBudget

configVars == <<mounted, minDate, maxDate, now, defaultStartDate, isLoading,
                showTimeSelect>>

singleVars == <<single, value, emitted, picked, timeList>>

Hosted == mounted = "DateRangePickerInput"

\* a DateRangeOverlay is on screen
OverlayShown == mounted = "DateRangeOverlay" \/ (Hosted /\ isOpen)

-----------------------------------------------------------------------------
(* Actions of the range calendar.  Under DateRangePickerInput the overlay's *)
(* onChange is handleDateChange, which stores the pair in the buffer; the   *)
(* buffer is the overlay's startDate / endDate props, so the overlay is     *)
(* re-rendered and its prop effects run.                                    *)

Deliver(r) ==
    /\ notified' = r.calls
    /\ IF Hosted /\ r.calls # <<>>
       THEN LET c == r.calls[1]
                f == r.fresh[1]
                b == handleDateChange(c)
            IN  /\ localStartDate' = b.localStartDate
                /\ localEndDate' = b.localEndDate
                /\ committed' = b.calls
                /\ startDate' = b.localStartDate
                /\ endDate' = b.localEndDate
                /\ overlay' = SyncProps(r.state, startDate, b.localStartDate, f.startDate,
                                        endDate, b.localEndDate, f.endDate)
       ELSE /\ overlay' = r.state
            /\ committed' = <<>>
            /\ UNCHANGED <<localStartDate, localEndDate, startDate, endDate>>
    /\ UNCHANGED <<isOpen, inputValue, extStartDate, extEndDate>>
    /\ UNCHANGED configVars
    /\ UNCHANGED singleVars

\* what is rendered: with a special view active only that side's header and
\* grid, else both sides'; a side renders the grid of its view
HeaderShown(side) == overlay.activeSpecialView \in {"null", side}

ViewOf(side) == IF side = "left" THEN overlay.leftView ELSE overlay.rightView

GridShown(side, view) == HeaderShown(side) /\ ViewOf(side) = view

DaysGridShown == \E side \in {"left", "right"} : GridShown(side, "days")

Pick(date) ==
    /\ OverlayShown
    /\ DaysGridShown
    /\ Deliver(handleDateSelect(overlay, date))
    /\ lastOp' = Op("pick", overlay.selectionPhase, date, 0)
    /\ UNCHANGED navBudget

Hover(date) ==
    /\ OverlayShown
    /\ DaysGridShown
    /\ Deliver(Silent(handleDateHover(overlay, date)))
    /\ lastOp' = Op("hover", "", date, 0)
    /\ UNCHANGED navBudget

MouseLeave ==
    /\ OverlayShown
    /\ DaysGridShown
    /\ Deliver(Silent(handleMouseLeave(overlay)))
    /\ lastOp' = Op("leave", "", Null, 0)
    /\ UNCHANGED navBudget

Navigate(direction) ==
    /\ OverlayShown
    /\ WithinBudget(overlay, handleNavigation(overlay, direction))
    /\ Deliver(Silent(handleNavigation(overlay, direction)))
    /\ lastOp' = Op("navigate", direction, Null, 0)

ToggleView(side) ==
    /\ OverlayShown
    /\ HeaderShown(side)
    /\ Deliver(Silent(toggleView(overlay, side)))
    /\ lastOp' = Op("toggleView", side, Null, 0)
    /\ UNCHANGED navBudget

MonthSelect(side, monthIndex) ==
    /\ OverlayShown
    /\ GridShown(side, "months")
    /\ WithinBudget(overlay, handleMonthSelect(overlay, side, monthIndex))
    /\ Deliver(Silent(handleMonthSelect(overlay, side, monthIndex)))
    /\ lastOp' = Op("selectMonth", side, Null, monthIndex)

YearSelect(side, year) ==
    /\ OverlayShown
    /\ GridShown(side, "years")
    /\ WithinBudget(overlay, handleYearSelect(overlay, side, year))
    /\ Deliver(Silent(handleYearSelect(overlay, side, year)))
    /\ lastOp' = Op("selectYear", side, Null, year)

\* the years the years grid of a side offers
YearsShown(side) ==
    LET r == IF side = "left" THEN overlay.leftYearRange ELSE overlay.rightYearRange
    IN  {r.start + i : i \in 0..11}

-----------------------------------------------------------------------------
(* Actions of DateRangePickerInput.  The consumer is a controlled one: it  *)
(* stores every pair onChange hands it and passes it back as startDate /   *)
(* endDate.                                                                 *)

\* the popover is removed: the overlay is unmounted and its state is lost
Unmount ==
    /\ isOpen' = FALSE
    /\ overlay' = NoOverlay
    /\ startDate' = Undefined
    /\ endDate' = Undefined

togglePicker ==
    /\ Hosted
    /\ IF isOpen
       THEN /\ Unmount
            /\ UNCHANGED <<localStartDate, localEndDate>>
       ELSE \* the overlay mounts with the buffer as it is, then
            \* useEffect(..., [isOpen]) resets the buffer to the props
            LET m  == MountOverlay(localStartDate, localEndDate)
                s2 == OrNull(extStartDate)
                e2 == OrNull(extEndDate)
            IN  /\ isOpen' = TRUE
                /\ localStartDate' = s2
                /\ localEndDate' = e2
                /\ startDate' = s2
                /\ endDate' = e2
                /\ overlay' = SyncProps(m, localStartDate, s2, FALSE,
                                        localEndDate, e2, FALSE)
    /\ notified' = <<>>
    /\ committed' = <<>>
    /\ lastOp' = Op("togglePicker", "", Null, 0)
    /\ UNCHANGED navBudget
    /\ UNCHANGED <<inputValue, extStartDate, extEndDate>>
    /\ UNCHANGED configVars
    /\ UNCHANGED singleVars

handleKeyDown(key) ==
    /\ Hosted
    /\ IF key \in {"Enter", "Escape"}
       THEN IF isOpen THEN Unmount ELSE UNCHANGED <<isOpen, overlay, startDate, endDate>>
       ELSE UNCHANGED <<isOpen, overlay, startDate, endDate>>
    /\ notified' = <<>>
    /\ committed' = <<>>
    /\ lastOp' = Op("keyDown", key, Null, 0)
    /\ UNCHANGED navBudget
    /\ UNCHANGED <<localStartDate, localEndDate, inputValue, extStartDate, extEndDate>>
    /\ UNCHANGED configVars
    /\ UNCHANGED singleVars

\* closing with the buffer set to pair
CloseWith(pair) ==
    /\ localStartDate' = pair.startDate
    /\ localEndDate' = pair.endDate
    /\ IF isOpen THEN Unmount ELSE UNCHANGED <<isOpen, overlay, startDate, endDate>>
    /\ notified' = <<>>
    /\ committed' = <<>>
    /\ UNCHANGED <<inputValue, extStartDate, extEndDate>>
    /\ UNCHANGED configVars
    /\ UNCHANGED singleVars

handleCancel ==
    /\ Hosted
    /\ isOpen
    /\ CloseWith(RevertIfOnlyStart)
    /\ lastOp' = Op("cancel", "", Null, 0)
    /\ UNCHANGED navBudget

\* the useOutsideClick handler, for a click outside the input element
handleOutsideClick ==
    /\ Hosted
    /\ CloseWith(RevertIfOnlyStart)
    /\ lastOp' = Op("outsideClick", "", Null, 0)
    /\ UNCHANGED navBudget

handleApply ==
    /\ Hosted
    /\ isOpen
    /\ ~ApplyDisabled
    /\ committed' = <<Call(localStartDate, localEndDate)>>
    /\ extStartDate' = localStartDate
    /\ extEndDate' = localEndDate
    /\ inputValue' = SyncInputValue(localStartDate, localEndDate,
                                    FormatPair(localStartDate, localEndDate))
    /\ Unmount
    /\ notified' = <<>>
    /\ lastOp' = Op("apply", "", Null, 0)
    /\ UNCHANGED navBudget
    /\ UNCHANGED <<localStartDate, localEndDate>>
    /\ UNCHANGED configVars
    /\ UNCHANGED singleVars

\* faulty variant of handleClear: the consumer is not notified
handleClear_Buffered ==
    /\ Hosted
    /\ ClearShown
    /\ localStartDate' = Null
    /\ localEndDate' = Null
    /\ committed' = <<>>
    /\ inputValue' = <<>>
    /\ IF isOpen
       THEN /\ startDate' = Null
            /\ endDate' = Null
            /\ overlay' = SyncProps(overlay, startDate, Null, FALSE,
                                    endDate, Null, FALSE)
       ELSE UNCHANGED <<overlay, startDate, endDate>>
    /\ notified' = <<>>
    /\ lastOp' = Op("clear", "", Null, 0)
    /\ UNCHANGED navBudget
    /\ UNCHANGED <<isOpen, extStartDate, extEndDate>>
    /\ UNCHANGED configVars
    /\ UNCHANGED singleVars

handleClear ==
    /\ Hosted
    /\ ClearShown
    /\ localStartDate' = Null
    /\ localEndDate' = Null
    /\ committed' = <<Call(Null, Null)>>
    /\ extStartDate' = Null
    /\ extEndDate' = Null
    /\ inputValue' = <<>>
    /\ IF isOpen
       THEN /\ startDate' = Null
            /\ endDate' = Null
            /\ overlay' = SyncProps(overlay, startDate, Null, FALSE,
                                    endDate, Null, FALSE)
       ELSE UNCHANGED <<overlay, startDate, endDate>>
    /\ notified' = <<>>
    /\ lastOp' = Op("clear", "", Null, 0)
    /\ UNCHANGED navBudget
    /\ UNCHANGED isOpen
    /\ UNCHANGED configVars
    /\ UNCHANGED singleVars

\* DateRangePresets is rendered in the popover (showPresets is set); its
\* onSelectRange is handleDateChange, and getRange builds new Dates
handlePresetClick(label) ==
    /\ Hosted
    /\ isOpen
    /\ LET b == handleDateChange(getRange(label, now))
       IN  /\ localStartDate' = b.localStartDate
           /\ localEndDate' = b.localEndDate
           /\ committed' = b.calls
           /\ startDate' = b.localStartDate
           /\ endDate' = b.localEndDate
           /\ overlay' = SyncProps(overlay, startDate, b.localStartDate, TRUE,
                                   endDate, b.localEndDate, TRUE)
    /\ notified' = <<>>
    /\ lastOp' = Op("preset", label, Null, 0)
    /\ UNCHANGED navBudget
    /\ UNCHANGED <<isOpen, inputValue, extStartDate, extEndDate>>
    /\ UNCHANGED configVars
    /\ UNCHANGED singleVars

-----------------------------------------------------------------------------
(* Actions of the single calendar.  The consumer is a controlled one: it   *)
(* stores every date onChange hands it and passes it back as value, a Date *)
(* object the calendar has not seen as value before, so useEffect(...,     *)
(* [value]) runs.                                                           *)

\* the host rendered a DatePickerInput
InputHosted == mounted = "DatePickerInput"

\* a DateOverlay is on screen: a bare one, or the one DatePickerInput renders
\* under {isOpen && ...}
SingleShown == mounted = "DateOverlay" \/ (InputHosted /\ isOpen)

NoSingle ==
    [currentDate |-> Null, selectedDate |-> Null, view |-> "days",
     yearRange |-> [start |-> 0, end |-> 11], selectedTime |-> NoTime]

\* what only the range components hold
rangeOnlyVars == <<startDate, endDate, overlay, notified, localStartDate,
                   localEndDate, extStartDate, extEndDate>>

rangeVars == <<startDate, endDate, overlay, notified, isOpen, localStartDate,
               localEndDate, inputValue, extStartDate, extEndDate, committed>>

DO_Deliver(r) ==
    /\ emitted' = r.calls
    /\ IF r.calls = <<>>
       THEN /\ value' = value
            /\ single' = r.state
            /\ committed' = <<>>
            /\ UNCHANGED <<isOpen, inputValue>>
       ELSE IF InputHosted
       THEN \* onChange is DatePickerInput's handleDateChange, which closes
            LET c == DPI_handleDateChange(r.calls[1])
            IN  /\ committed' = c.calls
                /\ value' = c.calls[1]
                /\ inputValue' = c.inputValue
                /\ isOpen' = c.isOpen
                /\ single' = NoSingle
       ELSE /\ value' = r.calls[1]
            /\ single' = DO_SyncValue(r.state, r.calls[1])
            /\ committed' = <<>>
            /\ UNCHANGED <<isOpen, inputValue>>
    /\ UNCHANGED rangeOnlyVars
    /\ UNCHANGED configVars
    /\ UNCHANGED timeList

\* no day and no time has been picked yet
NoPicks == [date |-> Null, time |-> NoTime, notified |-> FALSE]

\* an onChange argument that is the day of date at the time of day time
Combines(call, date, time) == isSameDay(call, date) /\ formatDate(call) = time

\* the picks after a step: the last day picked, the last time picked, and
\* whether onChange has been called with that day at that time
Remember(date, time) ==
    picked' =
        [date |-> date,
         time |-> time,
         notified |->
             /\ IsDate(date)
             /\ time # NoTime
             /\ \/ \E i \in DOMAIN emitted' : Combines(emitted'[i], date, time)
                \/ picked.notified /\ date = picked.date /\ time = picked.time]

Unremarkable == Remember(picked.date, picked.time)

SingleSelect(date) ==
    /\ SingleShown
    /\ single.view = "days"
    /\ DO_Deliver(DO_handleDateSelect(single, date))
    /\ UNCHANGED navBudget
    /\ Remember(IF DO_isDateInRange(date) THEN date ELSE picked.date, picked.time)
    /\ lastOp' = Op("select", "", date, 0)

\* the time list is rendered under showTimeSelect && selectedDate &&
\* view === 'days'
TimeSelectorShown ==
    showTimeSelect /\ IsDate(single.selectedDate) /\ single.view = "days"

SingleSelectTime(timeString) ==
    /\ SingleShown
    /\ TimeSelectorShown
    /\ DO_Deliver(handleTimeSelect(single, timeString))
    /\ UNCHANGED navBudget
    /\ Remember(picked.date, timeString)
    /\ lastOp' = Op("selectTime", "", Null, timeString[1] * 60 + timeString[2])

SingleSelectToday ==
    /\ SingleShown
    /\ DO_Deliver(handleSelectToday(single))
    /\ UNCHANGED navBudget
    /\ Unremarkable
    /\ lastOp' = Op("selectToday", "", Null, 0)

SinglePrev ==
    /\ SingleShown
    /\ DO_Deliver(DO_Result(handlePrev(single), <<>>))
    /\ WithinBudget(single, handlePrev(single))
    /\ Unremarkable
    /\ lastOp' = Op("navigate", "prev", Null, 0)

SingleNext ==
    /\ SingleShown
    /\ DO_Deliver(DO_Result(handleNext(single), <<>>))
    /\ WithinBudget(single, handleNext(single))
    /\ Unremarkable
    /\ lastOp' = Op("navigate", "next", Null, 0)

SingleToggleMonths ==
    /\ SingleShown
    /\ DO_Deliver(DO_Result(toggleViewMonths(single), <<>>))
    /\ UNCHANGED navBudget
    /\ Unremarkable
    /\ lastOp' = Op("toggleView", "months", Null, 0)

SingleToggleYears ==
    /\ SingleShown
    /\ DO_Deliver(DO_Result(toggleViewYears(single), <<>>))
    /\ UNCHANGED navBudget
    /\ Unremarkable
    /\ lastOp' = Op("toggleView", "years", Null, 0)

SingleSelectMonth(monthIndex) ==
    /\ SingleShown
    /\ single.view = "months"
    /\ DO_Deliver(DO_Result(DO_handleMonthSelect(single, monthIndex), <<>>))
    /\ WithinBudget(single, DO_handleMonthSelect(single, monthIndex))
    /\ Unremarkable
    /\ lastOp' = Op("selectMonth", "", Null, monthIndex)

SingleSelectYear(year) ==
    /\ SingleShown
    /\ single.view = "years"
    /\ DO_Deliver(DO_Result(DO_handleYearSelect(single, year), <<>>))
    /\ WithinBudget(single, DO_handleYearSelect(single, year))
    /\ Unremarkable
    /\ lastOp' = Op("selectYear", "", Null, year)

\* isDateInRange of the single calendar, as the render of a day button or a
\* handler calls it
CallDO_isDateInRange(date) ==
    /\ mounted = "isDateInRange"
    /\ lastOp' = Op("DO_isDateInRange",
                    IF DO_isDateInRange(date) THEN "accepted" ELSE "rejected",
                    date, 0)
    /\ UNCHANGED <<configVars, rangeVars, singleVars, navBudget>>

\* isDateInRange of the range calendar
CallIsDateInRange(date) ==
    /\ mounted = "isDateInRange"
    /\ lastOp' = Op("isDateInRange",
                    IF isDateInRange(date) THEN "accepted" ELSE "rejected",
                    date, 0)
    /\ UNCHANGED <<configVars, rangeVars, singleVars, navBudget>>

\* the parent of a bare DateRangeOverlay passes other startDate / endDate
\* props; fresh says whether the Dates are newly created objects
PropsUpdate(pair, fresh) ==
    /\ mounted = "DateRangeOverlay"
    /\ startDate' = pair[1]
    /\ endDate' = pair[2]
    /\ overlay' = SyncProps(overlay, startDate, pair[1], fresh,
                            endDate, pair[2], fresh)
    /\ notified' = <<>>
    /\ lastOp' = Op("props", "", Null, 0)
    /\ UNCHANGED <<isOpen, inputValue, extStartDate, extEndDate, committed,
                   localStartDate, localEndDate>>
    /\ UNCHANGED <<configVars, singleVars, navBudget>>

\* the render of a day button of a days grid calls isInSelectedRange(day)
RenderDay(day) ==
    /\ OverlayShown
    /\ DaysGridShown
    /\ lastOp' = Op("isInSelectedRange",
                    IF isInSelectedRange(overlay, day) THEN "in" ELSE "out",
                    day, 0)
    /\ UNCHANGED <<configVars, rangeVars, singleVars, navBudget>>

\* what no handler of DatePickerInput itself changes
inputIdleVars == <<configVars, rangeOnlyVars, picked, timeList, navBudget>>

DPI_togglePicker ==
    /\ InputHosted
    /\ isOpen' = ~isOpen
    /\ single' = IF isOpen THEN NoSingle
                 ELSE DO_SyncValue(DO_InitialState(value), value)
    /\ emitted' = <<>>
    /\ committed' = <<>>
    /\ lastOp' = Op("togglePicker", "", Null, 0)
    /\ UNCHANGED <<value, inputValue>>
    /\ UNCHANGED inputIdleVars

DPI_handleKeyDown(key) ==
    /\ InputHosted
    /\ IF key = "Enter" /\ inputValue # <<>>
       THEN LET parsedDate == parse(inputValue)
            IN  /\ IF inRange(parsedDate)
                   THEN \* the consumer passes parsedDate back as value, and
                        \* useEffect(..., [value, dateFormat]) formats it
                        /\ committed' = <<parsedDate>>
                        /\ value' = parsedDate
                        /\ inputValue' = FormatValue(parsedDate)
                        /\ isOpen' = FALSE
                        /\ single' = NoSingle
                   ELSE /\ committed' = <<>>
                        /\ inputValue' = FormatValue(value)
                        /\ UNCHANGED <<value, isOpen, single>>
                /\ lastOp' = Op("keyDown", key, parsedDate, 0)
       ELSE /\ committed' = <<>>
            /\ IF key = "Escape"
               THEN isOpen' = FALSE /\ single' = NoSingle
               ELSE UNCHANGED <<isOpen, single>>
            /\ lastOp' = Op("keyDown", key, Null, 0)
            /\ UNCHANGED <<value, inputValue>>
    /\ emitted' = <<>>
    /\ UNCHANGED inputIdleVars

\* the useOutsideClick handler, for a click outside the popover and the input
DPI_handleOutsideClick ==
    /\ InputHosted
    /\ isOpen
    /\ isOpen' = FALSE
    /\ single' = NoSingle
    /\ emitted' = <<>>
    /\ committed' = <<>>
    /\ lastOp' = Op("outsideClick", "", Null, 0)
    /\ UNCHANGED <<value, inputValue>>
    /\ UNCHANGED inputIdleVars

\* the clear icon, rendered under inputValue && !isDisabled && showClearIcon
DPI_handleClear ==
    /\ InputHosted
    /\ inputValue # <<>>
    /\ committed' = <<Null>>
    /\ value' = Null
    /\ inputValue' = <<>>
    /\ single' = IF isOpen THEN DO_SyncValue(single, Null) ELSE single
    /\ emitted' = <<>>
    /\ lastOp' = Op("clear", "", Null, 0)
    /\ UNCHANGED isOpen
    /\ UNCHANGED inputIdleVars

timeIdleVars == <<configVars, rangeVars, single, value, emitted, picked, navBudget>>

\* the TimeSelector is rendered and calls generateTimeOptions
generateTimeOptions ==
    /\ mounted = "TimeSelector"
    /\ timeList.pc = "idle"
    /\ timeList' = EnterLoop(timeList)
    /\ lastOp' = Op("generateTimeOptions", "call", Null, 0)
    /\ UNCHANGED timeIdleVars

\* the for loop of generateTimeOptions tests its condition once more
generateTimeOptionsLoop ==
    /\ mounted = "TimeSelector"
    /\ timeList.pc = "loop"
    /\ timeList' = Iterate(timeList)
    /\ lastOp' = Op("generateTimeOptions", "loop", Null, 0)
    /\ UNCHANGED timeIdleVars

-----------------------------------------------------------------------------
(* Specifications *)

NoInput ==
    /\ isOpen = FALSE
    /\ localStartDate = Null
    /\ localEndDate = Null
    /\ inputValue = <<>>
    /\ isLoading = FALSE
    /\ extStartDate = Undefined
    /\ extEndDate = Undefined
    /\ committed = <<>>

NoSingleInit ==
    /\ single = NoSingle
    /\ value = Undefined
    /\ showTimeSelect = FALSE
    /\ emitted = <<>>
    /\ picked = NoPicks
    /\ timeList = NoTimeList

InitRange ==
    /\ mounted = "DateRangeOverlay"
    /\ now = Clock
    /\ defaultStartDate = Undefined
    /\ minDate = TightMin
    /\ maxDate = TightMax
    /\ \E p \in RangeProps : startDate = p[1] /\ endDate = p[2]
    /\ overlay = MountOverlay(startDate, endDate)
    /\ notified = <<>>
    /\ NoInput
    /\ NoSingleInit
    /\ navBudget = Unlimited
    /\ lastOp = Op("mount", "", Null, 0)

\* the calendar's handlers, with their arguments drawn from the given sets
RangeCalendarNext(picks, hovers, months, years) ==
    \/ \E date \in picks : Pick(date)
    \/ \E date \in hovers : Hover(date)
    \/ MouseLeave
    \/ \E direction \in {"prev", "next"} : Navigate(direction)
    \/ \E date \in {Day(2024, 1, 14)} : Hover(date)
    \/ MouseLeave
    \/ \E side \in {"left", "right"} : ToggleView(side)
    \/ \E side \in {"left", "right"}, monthIndex \in months :
           MonthSelect(side, monthIndex)
    \/ \E side \in {"left", "right"} : \E year \in years \cap YearsShown(side) :
           YearSelect(side, year)

\* a bare DateRangeOverlay within tight bounds
NextRange == RangeCalendarNext(PickDates, HoverDates, {1}, {2024})

SpecRange == InitRange /\ [][NextRange]_vars

\* a bare DateRangeOverlay without bounds props, for navigation
InitRangeNav ==
    /\ mounted = "DateRangeOverlay"
    /\ now = Clock
    /\ defaultStartDate = Undefined
    /\ minDate = Undefined
    /\ maxDate = Undefined
    /\ startDate = Undefined
    /\ endDate = Undefined
    /\ overlay = MountOverlay(startDate, endDate)
    /\ notified = <<>>
    /\ NoInput
    /\ NoSingleInit
    /\ navBudget = MaxNavigations
    /\ lastOp = Op("mount", "", Null, 0)

NextRangeNav ==
    RangeCalendarNext({Day(2024, 0, 25)}, {Day(2024, 1, 14)}, {0, 11},
                      {2023, 2024, 2025})

SpecRangeNav == InitRangeNav /\ [][NextRangeNav]_vars

\* the minDate / maxDate props of the navigation runs of a bare calendar:
\* none, a few weeks, one day, more than a year, several decades, and
\* one-sided ones
NavProps ==
    {<<Undefined, Undefined>>, <<TightMin, TightMax>>,
     <<Day(2024, 1, 29), Day(2024, 1, 29)>>,
     <<D(2022, 10, 15, 8, 0, 0), D(2025, 1, 10, 8, 0, 0)>>,
     <<Day(2010, 5, 1), Day(2040, 5, 30)>>,
     <<Day(2010, 5, 1), Undefined>>, <<Undefined, Day(2040, 5, 30)>>}

\* the minDate / maxDate props of the runs of the month and year grids of a
\* bare DateRangeOverlay
GridProps ==
    {<<Undefined, Undefined>>, <<TightMin, TightMax>>,
     <<D(2022, 10, 15, 8, 0, 0), D(2025, 1, 10, 8, 0, 0)>>,
     <<Day(2010, 5, 1), Day(2030, 5, 30)>>}

\* the months and the years clicked in the grids: the first and the last
\* month and months around the clock's, years around the bounds' and the
\* clock's
GridMonths == {0, 1, 2, 11}

GridYears == {2009, 2010, 2022, 2023, 2024, 2025, 2026, 2027, 2030, 2031}

\* a bare DateRangeOverlay under any of the bounds props, for the month and
\* year grids
InitRangeGrids ==
    /\ mounted = "DateRangeOverlay"
    /\ now = Clock
    /\ defaultStartDate = Undefined
    /\ \E p \in GridProps : minDate = p[1] /\ maxDate = p[2]
    /\ startDate = Undefined
    /\ endDate = Undefined
    /\ overlay = MountOverlay(startDate, endDate)
    /\ notified = <<>>
    /\ NoInput
    /\ NoSingleInit
    /\ navBudget = MaxNavigations
    /\ lastOp = Op("mount", "", Null, 0)

NextRangeGrids ==
    \/ \E direction \in {"prev", "next"} : Navigate(direction)
    \/ \E side \in {"left", "right"} : ToggleView(side)
    \/ \E side \in {"left", "right"}, monthIndex \in GridMonths :
           MonthSelect(side, monthIndex)
    \/ \E side \in {"left", "right"} :
           \E year \in GridYears \cap YearsShown(side) : YearSelect(side, year)

SpecRangeGrids == InitRangeGrids /\ [][NextRangeGrids]_vars

\* the startDate / endDate props of the selection runs: none, a cleared
\* pair, a start alone and pairs, at midnight and with a time of day
SelectionProps ==
    {<<Undefined, Undefined>>, <<Null, Null>>,
     <<Day(2024, 0, 25), Null>>, <<D(2024, 0, 25, 8, 0, 0), Null>>,
     <<Day(2024, 0, 25), Day(2024, 1, 14)>>,
     <<D(2024, 0, 25, 8, 0, 0), D(2024, 1, 14, 6, 0, 0)>>,
     <<D(2024, 0, 25, 18, 0, 0), D(2024, 0, 25, 20, 0, 0)>>}

\* the days whose buttons are rendered, and days with a time of day
RenderDays ==
    PickDates \cup {Day(2024, 0, 24), Day(2024, 0, 26), Day(2024, 1, 13),
                    Day(2024, 1, 15), D(2024, 0, 25, 12, 0, 0),
                    D(2024, 1, 14, 23, 0, 0), D(2024, 0, 10, 9, 0, 0)}

\* a bare DateRangeOverlay without bounds, under any of the selection props
InitSelection ==
    /\ mounted = "DateRangeOverlay"
    /\ now = Clock
    /\ defaultStartDate = Undefined
    /\ minDate = Undefined
    /\ maxDate = Undefined
    /\ \E p \in SelectionProps : startDate = p[1] /\ endDate = p[2]
    /\ overlay = MountOverlay(startDate, endDate)
    /\ notified = <<>>
    /\ NoInput
    /\ NoSingleInit
    /\ navBudget = MaxNavigations
    /\ lastOp = Op("mount", "", Null, 0)

NextSelection ==
    \/ \E date \in PickDates : Pick(date)
    \/ \E date \in HoverDates : Hover(date)
    \/ MouseLeave
    \/ \E pair \in SelectionProps, fresh \in BOOLEAN : PropsUpdate(pair, fresh)
    \/ \E day \in RenderDays : RenderDay(day)

SpecSelection == InitSelection /\ [][NextSelection]_vars

\* a bare DateRangeOverlay whose props stay as they were at the mount: days
\* are picked and hovered
NextPicks ==
    \/ \E date \in PickDates : Pick(date)
    \/ \E date \in HoverDates : Hover(date)
    \/ MouseLeave

SpecPicks == InitSelection /\ [][NextPicks]_vars

\* the startDate / endDate props the consumer of DateRangePickerInput starts with
InputProps == {<<Undefined, Undefined>>, <<Day(2024, 0, 25), Day(2024, 1, 14)>>}

\* a DateRangePickerInput within tight bounds, closed, as after its first render
InitInput ==
    /\ mounted = "DateRangePickerInput"
    /\ now = Clock
    /\ defaultStartDate = Undefined
    /\ minDate = TightMin
    /\ maxDate = TightMax
    /\ \E p \in InputProps : extStartDate = p[1] /\ extEndDate = p[2]
    /\ isLoading \in BOOLEAN
    /\ isOpen = FALSE
    /\ localStartDate = OrNull(extStartDate)
    /\ localEndDate = OrNull(extEndDate)
    /\ inputValue = FormatPair(extStartDate, extEndDate)
    /\ committed = <<>>
    /\ startDate = Undefined
    /\ endDate = Undefined
    /\ overlay = NoOverlay
    /\ notified = <<>>
    /\ NoSingleInit
    /\ navBudget = MaxNavigations
    /\ lastOp = Op("mount", "", Null, 0)

\* the handlers of the picker and, of the hosted calendar, those of its days
\* view (the view changes are exercised on the bare overlay)
NextInput ==
    \/ \E date \in {Day(2024, 0, 25), Day(2024, 1, 14)} : Pick(date)
    \/ \E direction \in {"prev", "next"} : Navigate(direction)
    \/ \E date \in {Day(2024, 1, 14)} : Hover(date)
    \/ MouseLeave
    \/ togglePicker
    \/ \E key \in {"Enter", "Escape"} : handleKeyDown(key)
    \/ handleOutsideClick
    \/ handleCancel
    \/ handleApply
    \/ handleClear
    \/ \E label \in {"Today", "Last Year"} : handlePresetClick(label)

SpecInput == InitInput /\ [][NextInput]_vars

NoRange ==
    /\ defaultStartDate = Undefined
    /\ startDate = Undefined
    /\ endDate = Undefined
    /\ overlay = NoOverlay
    /\ notified = <<>>

\* the value prop a parent passes to a bare DateOverlay
SingleValues == {Undefined, D(2024, 1, 14, 9, 30, 0)}

\* the times a click in the time list can name
TimeChoices == {<<9, 30>>, <<14, 0>>}

\* a bare DateOverlay within tight bounds
InitSingle ==
    /\ mounted = "DateOverlay"
    /\ now = Clock
    /\ minDate = TightMin
    /\ maxDate = TightMax
    /\ value \in SingleValues
    /\ showTimeSelect \in BOOLEAN
    /\ single = DO_SyncValue(DO_InitialState(value), value)
    /\ emitted = <<>>
    /\ picked = NoPicks
    /\ timeList = NoTimeList
    /\ NoRange
    /\ NoInput
    /\ navBudget = Unlimited
    /\ lastOp = Op("mount", "", Null, 0)

NextSingle ==
    \/ \E date \in PickDates : SingleSelect(date)
    \/ \E timeString \in TimeChoices : SingleSelectTime(timeString)
    \/ SingleSelectToday
    \/ SinglePrev
    \/ SingleNext
    \/ SingleToggleMonths
    \/ SingleToggleYears
    \/ \E monthIndex \in {0, 1} : SingleSelectMonth(monthIndex)
    \/ \E year \in {2023, 2024} : SingleSelectYear(year)

SpecSingle == InitSingle /\ [][NextSingle]_vars

\* the years the years grid offers
DO_YearsShown == {single.yearRange.start + i : i \in 0..11}

\* a bare DateOverlay under any of the bounds props, for navigation
InitSingleNav ==
    /\ mounted = "DateOverlay"
    /\ now = Clock
    /\ \E p \in NavProps : minDate = p[1] /\ maxDate = p[2]
    /\ value = Undefined
    /\ showTimeSelect = FALSE
    /\ single = DO_SyncValue(DO_InitialState(value), value)
    /\ emitted = <<>>
    /\ picked = NoPicks
    /\ timeList = NoTimeList
    /\ NoRange
    /\ NoInput
    /\ navBudget = MaxNavigations
    /\ lastOp = Op("mount", "", Null, 0)

NextSingleNav ==
    \/ SinglePrev
    \/ SingleNext
    \/ SingleToggleMonths
    \/ SingleToggleYears
    \/ \E monthIndex \in 0..11 : SingleSelectMonth(monthIndex)
    \/ \E year \in DO_YearsShown : SingleSelectYear(year)

SpecSingleNav == InitSingleNav /\ [][NextSingleNav]_vars

\* the minDate / maxDate props of the runs of every handler of a bare
\* DateOverlay: none, bounds within two months, one day, and bounds from the
\* year before today's to the year after it
AllProps ==
    {<<Undefined, Undefined>>, <<TightMin, TightMax>>,
     <<Day(2024, 1, 29), Day(2024, 1, 29)>>,
     <<D(2023, 10, 15, 8, 0, 0), D(2025, 1, 10, 8, 0, 0)>>}

\* a bare DateOverlay under these bounds props: every handler of the calendar
\* but the time list
InitSingleAll ==
    /\ mounted = "DateOverlay"
    /\ now = Clock
    /\ \E p \in AllProps : minDate = p[1] /\ maxDate = p[2]
    /\ value = Undefined
    /\ showTimeSelect = FALSE
    /\ single = DO_SyncValue(DO_InitialState(value), value)
    /\ emitted = <<>>
    /\ picked = NoPicks
    /\ timeList = NoTimeList
    /\ NoRange
    /\ NoInput
    /\ navBudget = MaxNavigations
    /\ lastOp = Op("mount", "", Null, 0)

NextSingleAll ==
    \/ NextSingleNav
    \/ \E date \in PickDates : SingleSelect(date)
    \/ SingleSelectToday

SpecSingleAll == InitSingleAll /\ [][NextSingleAll]_vars

\* the header of the single calendar: its two view buttons and its arrows.
\* The user keeps toggling: each view button is clicked again and again, and
\* a click is a task of the event loop, which is eventually handled.
NextToggles ==
    \/ SingleToggleMonths
    \/ SingleToggleYears
    \/ SinglePrev
    \/ SingleNext

SpecToggles ==
    /\ InitSingleNav
    /\ [][NextToggles]_vars
    /\ WF_vars(SingleToggleMonths)
    /\ WF_vars(SingleToggleYears)

\* the years grids of both calendars: each bare calendar with its view
\* toggles, its navigation and its year selection
InitYearGrids == InitSingleNav \/ InitRangeGrids

NextYearGrids ==
    \/ SinglePrev
    \/ SingleNext
    \/ SingleToggleMonths
    \/ SingleToggleYears
    \/ \E year \in DO_YearsShown : SingleSelectYear(year)
    \/ \E direction \in {"prev", "next"} : Navigate(direction)
    \/ \E side \in {"left", "right"} : ToggleView(side)
    \/ \E side \in {"left", "right"} :
           \E year \in GridYears \cap YearsShown(side) : YearSelect(side, year)
    \/ MonthSelect("left", 11)

SpecYearGrids == InitYearGrids /\ [][NextYearGrids]_vars

\* the days a click in the hosted calendar can name: before the bounds, the
\* day of minDate, one inside, the day of maxDate
InputPickDates ==
    {Day(2024, 0, 10), Day(2024, 0, 20), Day(2024, 1, 14), Day(2024, 2, 20)}

\* a DatePickerInput within tight bounds, closed, as after its first render
InitDateInput ==
    /\ mounted = "DatePickerInput"
    /\ now = Clock
    /\ minDate = TightMin
    /\ maxDate = TightMax
    /\ value \in SingleValues
    /\ showTimeSelect \in BOOLEAN
    /\ isOpen = FALSE
    /\ inputValue = FormatValue(value)
    /\ committed = <<>>
    /\ single = NoSingle
    /\ emitted = <<>>
    /\ picked = NoPicks
    /\ timeList = NoTimeList
    /\ NoRange
    /\ localStartDate = Null
    /\ localEndDate = Null
    /\ isLoading = FALSE
    /\ extStartDate = Undefined
    /\ extEndDate = Undefined
    /\ navBudget = Unlimited
    /\ lastOp = Op("mount", "", Null, 0)

NextDateInput ==
    \/ DPI_togglePicker
    \/ \E key \in {"Enter", "Escape"} : DPI_handleKeyDown(key)
    \/ DPI_handleOutsideClick
    \/ DPI_handleClear
    \/ \E date \in InputPickDates : SingleSelect(date)
    \/ \E timeString \in TimeChoices : SingleSelectTime(timeString)
    \/ SingleSelectToday
    \/ SinglePrev
    \/ SingleNext
    \/ SingleToggleMonths
    \/ SingleToggleYears
    \/ \E monthIndex \in {0, 1} : SingleSelectMonth(monthIndex)
    \/ \E year \in {2023, 2024} : SingleSelectYear(year)

SpecDateInput == InitDateInput /\ [][NextDateInput]_vars

\* instants around two days: the ends of the days and times within them
Instants ==
    {D(2024, 0, 19, 23, 59, 59999), D(2024, 0, 20, 0, 0, 0),
     D(2024, 0, 20, 7, 0, 0), D(2024, 0, 20, 8, 0, 0),
     D(2024, 0, 20, 18, 0, 0), D(2024, 0, 20, 23, 59, 59999),
     D(2024, 0, 21, 0, 0, 0), D(2024, 0, 21, 8, 0, 0)}

\* the minDate / maxDate props of the bounds runs
BoundProps ==
    {Undefined, D(2024, 0, 20, 0, 0, 0), D(2024, 0, 20, 8, 0, 0),
     D(2024, 0, 20, 18, 0, 0), D(2024, 0, 21, 8, 0, 0)}

\* the bounds check of either calendar under any pair of bounds props
InitBounds ==
    /\ mounted = "isDateInRange"
    /\ now = Clock
    /\ minDate \in BoundProps
    /\ maxDate \in BoundProps
    /\ NoSingleInit
    /\ NoRange
    /\ NoInput
    /\ navBudget = Unlimited
    /\ lastOp = Op("mount", "", Null, 0)

NextBounds ==
    \/ \E date \in Instants : CallDO_isDateInRange(date)
    \/ \E date \in Instants : CallIsDateInRange(date)

SpecBounds == InitBounds /\ [][NextBounds]_vars

\* values of new Date(): every day of the week of the clock, at the ends of
\* the days and within them, and days around the ends of a month, of a leap
\* February and of a year
Clocks ==
    {Clock,
     D(2024, 0, 28, 0, 0, 0), D(2024, 0, 28, 12, 0, 0),
     D(2024, 0, 29, 9, 0, 0), D(2024, 0, 30, 23, 59, 59999),
     D(2024, 1, 1, 0, 0, 1), D(2024, 1, 2, 18, 45, 0),
     D(2024, 1, 3, 0, 0, 0), D(2024, 1, 3, 23, 59, 59999),
     D(2023, 11, 30, 8, 0, 0), D(2023, 11, 31, 23, 0, 0),
     D(2024, 0, 1, 0, 0, 0), D(2024, 1, 29, 12, 0, 0), D(2024, 2, 1, 12, 0, 0)}

\* a DateRangePickerInput without bounds, closed, at any of the clocks
InitPresets ==
    /\ mounted = "DateRangePickerInput"
    /\ now \in Clocks
    /\ defaultStartDate = Undefined
    /\ minDate = Undefined
    /\ maxDate = Undefined
    /\ extStartDate = Undefined
    /\ extEndDate = Undefined
    /\ isLoading = FALSE
    /\ isOpen = FALSE
    /\ localStartDate = Null
    /\ localEndDate = Null
    /\ inputValue = <<>>
    /\ committed = <<>>
    /\ startDate = Undefined
    /\ endDate = Undefined
    /\ overlay = NoOverlay
    /\ notified = <<>>
    /\ NoSingleInit
    /\ navBudget = MaxNavigations
    /\ lastOp = Op("mount", "", Null, 0)

\* the presets of the popover, with Apply and the opening click
NextPresets ==
    \/ togglePicker
    \/ \E label \in PresetLabels : handlePresetClick(label)
    \/ handleApply

SpecPresets == InitPresets /\ [][NextPresets]_vars

\* the minTime / maxTime props of the time list runs
TimeProps == {<<0, 0>>, <<8, 30>>, <<9, 0>>, <<10, 15>>, <<23, 59>>}

\* the timeInterval props of the time list runs
IntervalProps == {15, 30, 45, 60, 120}

\* a TimeSelector about to be rendered, its timeInterval drawn from intervals
TimeOptionsInit(intervals) ==
    /\ mounted = "TimeSelector"
    /\ now = Clock
    /\ minDate = Undefined
    /\ maxDate = Undefined
    /\ value = Undefined
    /\ showTimeSelect = TRUE
    /\ single = NoSingle
    /\ emitted = <<>>
    /\ picked = NoPicks
    /\ \E minTime \in TimeProps, maxTime \in TimeProps,
          timeInterval \in intervals :
           timeList = TimeListOf(minTime, maxTime, timeInterval)
    /\ NoRange
    /\ NoInput
    /\ navBudget = Unlimited
    /\ lastOp = Op("mount", "", Null, 0)

InitTimeOptions == TimeOptionsInit(IntervalProps)

NextTimeOptions == generateTimeOptions \/ generateTimeOptionsLoop

SpecTimeOptions == InitTimeOptions /\ [][NextTimeOptions]_vars

\* timeInterval is a number without a constraint: zero and negative values
\* are passed as well
AnyIntervalProps == IntervalProps \cup {0, 0 - 30}

InitAnyInterval == TimeOptionsInit(AnyIntervalProps)

\* the call runs to its end: a script is not suspended within a loop
SpecAnyInterval ==
    InitAnyInterval /\ [][NextTimeOptions]_vars /\ WF_vars(NextTimeOptions)

\* either calendar on its own, within the same tight bounds
InitCalendars == InitSingle \/ InitRange

NextCalendars == NextSingle \/ NextRange

SpecCalendars == InitCalendars /\ [][NextCalendars]_vars

-----------------------------------------------------------------------------
(* The properties.  Each is stated over one step: lastOp' names the handler *)
(* that ran and its arguments, the unprimed variables are the state it ran  *)
(* in, the primed ones the settled state it left.  notified, emitted and    *)
(* committed hold the onChange calls of that step alone.                    *)

\* date is before the start of min's day / after the end of max's day
BeforeMin(date) == IsDate(minDate) /\ isBefore(date, startOfDay(minDate))

AfterMax(date) == IsDate(maxDate) /\ isAfter(date, endOfDay(maxDate))

InBounds(date) == ~BeforeMin(date) /\ ~AfterMax(date)

\* the month a calendar displays, counted in months
MonthOrd(a) == a.y * 12 + a.m

\* C1: a pick of an in-bounds date in phase 'start' makes the date the
\* selected start, clears the selected end, moves the phase to 'end' and
\* notifies exactly once, with (date, null).
C1_StartPick ==
    [][(/\ lastOp'.op = "pick"
        /\ overlay.selectionPhase = "start"
        /\ InBounds(lastOp'.date))
       => /\ overlay'.selectedStartDate = lastOp'.date
          /\ overlay'.selectedEndDate = Null
          /\ overlay'.selectionPhase = "end"
          /\ notified' = <<Call(lastOp'.date, Null)>>]_vars

\* a pick in phase 'start' has just started a selection
C1_Witness ==
    /\ lastOp.op = "pick"
    /\ lastOp.side = "start"
    /\ InBounds(lastOp.date)
    /\ overlay.selectedStartDate = lastOp.date
    /\ overlay.selectedEndDate = Null
    /\ overlay.selectionPhase = "end"
    /\ notified = <<Call(lastOp.date, Null)>>

\* C2: a pick of an in-bounds date in phase 'end', with a start A selected
\* and the date not before A, makes the date the selected end, leaves the
\* start A, resets the phase to 'start' and notifies exactly once, with
\* (A, date).
C2_EndPick ==
    [][(/\ lastOp'.op = "pick"
        /\ overlay.selectionPhase = "end"
        /\ IsDate(overlay.selectedStartDate)
        /\ InBounds(lastOp'.date)
        /\ ~isBefore(lastOp'.date, overlay.selectedStartDate))
       => /\ overlay'.selectedEndDate = lastOp'.date
          /\ overlay'.selectedStartDate = overlay.selectedStartDate
          /\ overlay'.selectionPhase = "start"
          /\ notified' = <<Call(overlay.selectedStartDate, lastOp'.date)>>]_vars

\* a pick in phase 'end' has just completed a range of more than one day
C2_Witness ==
    /\ lastOp.op = "pick"
    /\ lastOp.side = "end"
    /\ overlay.selectionPhase = "start"
    /\ overlay.selectedEndDate = lastOp.date
    /\ IsDate(overlay.selectedStartDate)
    /\ isBefore(overlay.selectedStartDate, lastOp.date)
    /\ notified = <<Call(overlay.selectedStartDate, lastOp.date)>>

\* C3: a pick, in phase 'end' with a start A selected, of an in-bounds date
\* before A makes the date the selected start, keeps the selected end,
\* notifies with (date, that end) and leaves the phase at 'start', also
\* when the overlay is hosted by DateRangePickerInput.
C3_TieBreak ==
    [][(/\ lastOp'.op = "pick"
        /\ overlay.selectionPhase = "end"
        /\ IsDate(overlay.selectedStartDate)
        /\ InBounds(lastOp'.date)
        /\ isBefore(lastOp'.date, overlay.selectedStartDate))
       => /\ overlay'.selectedStartDate = lastOp'.date
          /\ overlay'.selectedEndDate = overlay.selectedEndDate
          /\ notified' = <<Call(lastOp'.date, overlay.selectedEndDate)>>
          /\ overlay'.selectionPhase = "start"]_vars

\* hosted, a pick in phase 'end' has replaced the start, the end was kept,
\* and the phase is 'end'
C3_Witness ==
    /\ Hosted
    /\ lastOp.op = "pick"
    /\ lastOp.side = "end"
    /\ overlay.selectedStartDate = lastOp.date
    /\ IsDate(overlay.selectedEndDate)
    /\ isAfter(overlay.selectedEndDate, lastOp.date)
    /\ notified = <<Call(lastOp.date, overlay.selectedEndDate)>>
    /\ overlay.selectionPhase = "end"

\* C4: a pick of a date before the normalized min or after the normalized
\* max changes no state field and notifies nobody, on the range calendar
\* (pick) and on the single calendar (select).
C4_OutOfBoundsPick ==
    [][/\ (lastOp'.op = "pick" /\ ~InBounds(lastOp'.date))
          => (overlay' = overlay /\ notified' = <<>>)
       /\ (lastOp'.op = "select" /\ ~InBounds(lastOp'.date))
          => (single' = single /\ value' = value /\ emitted' = <<>>)]_vars

\* a date after max was picked on the single calendar while a date was selected
C4_Witness ==
    /\ lastOp.op = "select"
    /\ AfterMax(lastOp.date)
    /\ IsDate(single.selectedDate)
    /\ emitted = <<>>

\* C5: after every operation of the range calendar the right calendar's
\* displayed month is at least one month after the left calendar's.
C5_RightAfterLeft ==
    mounted = "DateRangeOverlay"
    => MonthOrd(overlay.rightCurrentDate) >= MonthOrd(overlay.leftCurrentDate) + 1

\* both calendars are back in days view and the right one displays a month
\* before the left one's
C5_Witness ==
    /\ mounted = "DateRangeOverlay"
    /\ lastOp.op = "toggleView"
    /\ overlay.leftView = "days"
    /\ overlay.rightView = "days"
    /\ MonthOrd(overlay.rightCurrentDate) < MonthOrd(overlay.leftCurrentDate)

C7_OnlyApplyAndClearNotify ==
    [][lastOp'.op \notin {"apply", "clear"}
       => /\ committed' = <<>>
          /\ extStartDate' = extStartDate
          /\ extEndDate' = extEndDate
          /\ inputValue' = inputValue]_vars

\* a preset click has filled the buffer with a pair the consumer does not hold
C7_Witness ==
    /\ Hosted
    /\ lastOp.op = "preset"
    /\ IsDate(localStartDate)
    /\ IsDate(localEndDate)
    /\ localStartDate # extStartDate
    /\ committed = <<>>

\* C8: Apply is taken only with both buffered endpoints non-null and
\* isLoading false; it notifies the consumer exactly once, with the
\* buffered pair, and closes the overlay.
C8_Apply ==
    [][lastOp'.op = "apply"
       => /\ IsDate(localStartDate)
          /\ IsDate(localEndDate)
          /\ ~isLoading
          /\ committed' = <<Call(localStartDate, localEndDate)>>
          /\ ~isOpen']_vars

\* Apply has just committed a pair
C8_Witness ==
    /\ lastOp.op = "apply"
    /\ ~isOpen
    /\ committed = <<Call(localStartDate, localEndDate)>>
    /\ IsDate(localStartDate)
    /\ IsDate(localEndDate)

\* C9: Cancel closes the overlay, notifies nobody and leaves the buffer
\* equal to the pair the consumer last committed, whatever was buffered;
\* an outside dismissal with only a start buffered does the same.
C9_CancelReverts ==
    [][(\/ lastOp'.op = "cancel"
        \/ /\ lastOp'.op = "outsideClick"
           /\ IsDate(localStartDate)
           /\ ~IsDate(localEndDate))
       => /\ ~isOpen'
          /\ committed' = <<>>
          /\ localStartDate' = OrNull(extStartDate)
          /\ localEndDate' = OrNull(extEndDate)]_vars

\* Cancel has closed the overlay with a complete pair in the buffer that
\* the consumer never committed
C9_Witness ==
    /\ lastOp.op = "cancel"
    /\ ~isOpen
    /\ IsDate(localStartDate)
    /\ IsDate(localEndDate)
    /\ <<localStartDate, localEndDate>> # <<OrNull(extStartDate), OrNull(extEndDate)>>

\* C10: clear sets both buffered endpoints to null and notifies the
\* consumer with (null, null) in the same step, the overlay open or closed,
\* and leaves the overlay as open or closed as it was.
C10_Clear ==
    [][lastOp'.op = "clear"
       => /\ localStartDate' = Null
          /\ localEndDate' = Null
          /\ committed' = <<Call(Null, Null)>>
          /\ isOpen' = isOpen]_vars

\* clear has run while the overlay was open
C10_Witness ==
    /\ lastOp.op = "clear"
    /\ isOpen
    /\ localStartDate = Null
    /\ localEndDate = Null
    /\ committed = <<Call(Null, Null)>>

\* C11: on the single calendar a pick of an in-bounds date makes the date
\* both the selected date and the displayed date, and calls onChange with the
\* date exactly when time selection is disabled; with time selection enabled
\* the pick calls nothing.
C11_Select ==
    [][(/\ lastOp'.op = "select"
        /\ InBounds(lastOp'.date))
       => /\ single'.selectedDate = lastOp'.date
          /\ single'.currentDate = lastOp'.date
          /\ emitted' = IF showTimeSelect THEN <<>> ELSE <<lastOp'.date>>]_vars

\* a pick with time selection enabled has selected the date without a call
C11_Witness ==
    /\ lastOp.op = "select"
    /\ InBounds(lastOp.date)
    /\ showTimeSelect
    /\ single.selectedDate = lastOp.date
    /\ single.currentDate = lastOp.date
    /\ emitted = <<>>

\* C12: a time pick "HH:mm" records the time as selectedTime; with a date
\* selected it calls onChange once, with an instant on the selected date's
\* calendar day whose hour and minute are those picked and whose seconds and
\* milliseconds are zero; with no date selected it calls nothing.
C12_SelectTime ==
    [][lastOp'.op = "selectTime"
       => LET hours   == lastOp'.n \div 60
              minutes == lastOp'.n % 60
          IN  /\ single'.selectedTime = <<hours, minutes>>
              /\ IF IsDate(single.selectedDate)
                 THEN /\ Len(emitted') = 1
                      /\ isSameDay(emitted'[1], single.selectedDate)
                      /\ emitted'[1].h = hours
                      /\ emitted'[1].mi = minutes
                      /\ emitted'[1].ms = 0
                 ELSE emitted' = <<>>]_vars

\* a time pick has notified an instant that carries seconds
C12_Witness ==
    /\ lastOp.op = "selectTime"
    /\ Len(emitted) = 1
    /\ emitted[1].h = lastOp.n \div 60
    /\ emitted[1].mi = lastOp.n % 60
    /\ emitted[1].ms # 0

\* C13: with time selection enabled, once a day d and a time t have both
\* been picked, in either order, onChange has been called with the instant
\* on d's calendar day at t's hour and minute.
C13_DateAndTime ==
    (/\ showTimeSelect
     /\ IsDate(picked.date)
     /\ picked.time # NoTime)
    => picked.notified

\* a day picked after a time: the day is selected, the time is still the
\* selected time, and onChange was never called with the two combined
C13_Witness ==
    /\ showTimeSelect
    /\ lastOp.op = "select"
    /\ picked.date = lastOp.date
    /\ picked.time # NoTime
    /\ single.selectedDate = picked.date
    /\ single.selectedTime = picked.time
    /\ ~picked.notified

\* the hosted overlay and its props after a click on date: handleDateSelect,
\* then handleDateChange and the prop effects, as in Deliver
AfterPick(st, date) ==
    LET r == handleDateSelect(st.overlay, date)
    IN  IF r.calls = <<>>
        THEN [st EXCEPT !.overlay = r.state]
        ELSE LET c == r.calls[1]
                 f == r.fresh[1]
             IN  [overlay   |-> SyncProps(r.state, st.startDate, c.startDate,
                                          f.startDate, st.endDate, c.endDate,
                                          f.endDate),
                  startDate |-> c.startDate,
                  endDate   |-> c.endDate]

\* the selection state of an overlay
Selection(o) == <<o.selectedStartDate, o.selectedEndDate, o.selectionPhase>>

\* C14: a preset click leaves the overlay's selection as clicking the
\* preset's start and then its end would: the selected start and end are the
\* preset's, and the phase is 'start', so that the next pick begins a new
\* range.
C14_PresetAsManual ==
    [][lastOp'.op = "preset"
       => LET range  == getRange(lastOp'.side, now)
              here   == [overlay |-> overlay, startDate |-> startDate,
                         endDate |-> endDate]
              manual == AfterPick(AfterPick(here, range.startDate), range.endDate)
          IN  /\ overlay'.selectedStartDate = range.startDate
              /\ overlay'.selectedEndDate = range.endDate
              /\ overlay'.selectionPhase = "start"
              /\ (/\ overlay.selectionPhase = "start"
                  /\ InBounds(range.startDate)
                  /\ InBounds(range.endDate))
                 => Selection(overlay') = Selection(manual.overlay)]_vars

\* a preset click has selected the preset's range and left the phase at 'end'
C14_Witness ==
    /\ lastOp.op = "preset"
    /\ overlay.selectedStartDate = getRange(lastOp.side, now).startDate
    /\ overlay.selectedEndDate = getRange(lastOp.side, now).endDate
    /\ overlay.selectionPhase = "end"

\* two manual picks of the same instants end in phase 'start'
C14_ManualEndsInStart ==
    [][(/\ lastOp'.op = "preset"
        /\ overlay.selectionPhase = "start"
        /\ InBounds(getRange(lastOp'.side, now).startDate)
        /\ InBounds(getRange(lastOp'.side, now).endDate))
       => LET range  == getRange(lastOp'.side, now)
              here   == [overlay |-> overlay, startDate |-> startDate,
                         endDate |-> endDate]
              manual == AfterPick(AfterPick(here, range.startDate), range.endDate)
          IN  Selection(manual.overlay) = <<range.startDate, range.endDate, "start">>]_vars

\* C15: when the range picker is opened again, the buffer and the whole
\* overlay state (selection, phase, displayed months, views, year windows)
\* are those the committed (startDate, endDate) pair, the bounds and the
\* defaults determine: picks that were never applied leave no trace.
C15_ReopenFromCommitted ==
    [][(lastOp'.op = "togglePicker" /\ isOpen')
       => LET s == OrNull(extStartDate)
              e == OrNull(extEndDate)
          IN  /\ localStartDate' = s
              /\ localEndDate' = e
              /\ overlay' = MountOverlay(s, e)]_vars

\* the picker was opened again on the committed pair and displays other
\* months than the committed pair determines
C15_Witness ==
    /\ lastOp.op = "togglePicker"
    /\ isOpen
    /\ localStartDate = OrNull(extStartDate)
    /\ localEndDate = OrNull(extEndDate)
    /\ LET fresh == MountOverlay(OrNull(extStartDate), OrNull(extEndDate))
       IN  /\ Selection(overlay) = Selection(fresh)
           /\ MonthOrd(overlay.leftCurrentDate) # MonthOrd(fresh.leftCurrentDate)

\* the step is a call of the bounds check of either calendar
BoundsChecked(op) == op.op \in {"DO_isDateInRange", "isDateInRange"}

\* C16: isDateInRange accepts exactly the instants from the start of min's
\* calendar day to the end of max's calendar day, an absent bound leaving
\* its side open; so it accepts min and max themselves whenever min's day is
\* not after max's day, and an instant of min's day before min, or of max's
\* day after max, is accepted as well.
C16_DayInclusive ==
    [][BoundsChecked(lastOp')
       => LET date == lastOp'.date
          IN  /\ lastOp'.side = "accepted"
                 <=> /\ IsDate(minDate) => DayKey(date) >= DayKey(minDate)
                     /\ IsDate(maxDate) => DayKey(date) <= DayKey(maxDate)
              /\ (/\ date \in {minDate, maxDate}
                  /\ IsDate(minDate) /\ IsDate(maxDate)
                     => DayKey(minDate) <= DayKey(maxDate))
                 => lastOp'.side = "accepted"]_vars

\* an instant strictly before min, on min's day, was accepted
C16_Witness ==
    /\ BoundsChecked(lastOp)
    /\ IsDate(minDate)
    /\ isBefore(lastOp.date, minDate)
    /\ isSameDay(lastOp.date, minDate)
    /\ lastOp.side = "accepted"

\* C16 as stated: isDateInRange accepts the min instant and the max instant
\* themselves and rejects every instant strictly before min or strictly
\* after max.
C16_InstantInclusive ==
    [][BoundsChecked(lastOp')
       => LET date == lastOp'.date
          IN  /\ date \in {minDate, maxDate} => lastOp'.side = "accepted"
              /\ (\/ IsDate(minDate) /\ isBefore(date, minDate)
                  \/ IsDate(maxDate) /\ isAfter(date, maxDate))
                 => lastOp'.side = "rejected"]_vars

\* C17: Enter in the input of DatePickerInput commits the parsed date d
\* exactly when the calendar's bounds check, isDateInRange on the normalized
\* bounds, accepts d; otherwise nothing is notified and the text is restored
\* to the formatted value last committed.
C17_EnterAsCalendar ==
    [][(/\ InputHosted
        /\ lastOp'.op = "keyDown"
        /\ lastOp'.side = "Enter"
        /\ inputValue # <<>>)
       => LET d == parse(inputValue)
          IN  IF DO_isDateInRange(d)
              THEN committed' = <<d>>
              ELSE committed' = <<>> /\ inputValue' = FormatValue(value)]_vars

\* Enter was pressed on a text naming a day the calendar accepts, and
\* nothing was notified
C17_Witness ==
    /\ InputHosted
    /\ lastOp.op = "keyDown"
    /\ lastOp.side = "Enter"
    /\ IsDate(lastOp.date)
    /\ DO_isDateInRange(lastOp.date)
    /\ committed = <<>>
    /\ inputValue = FormatValue(value)

\* the state and the calls of the step in which handleSelectToday runs in
\* state s: the handler, then the value effect for the value it notified
TodayStep(s) ==
    LET r == handleSelectToday(s)
    IN  [state |-> IF r.calls # <<>> THEN DO_SyncValue(r.state, r.calls[1])
                   ELSE r.state,
         calls |-> r.calls]

\* C18: with time selection disabled and today in bounds, two calls of
\* selectToday in succession commit the same value both times, the second
\* leaves the state the first left, and the two calls together notify the
\* consumer once.  (The state is the one the first call left; the second
\* call is applied to it.)
C18_TodayTwice ==
    (/\ mounted = "DateOverlay"
     /\ lastOp.op = "selectToday"
     /\ ~showTimeSelect
     /\ InBounds(now))
    => LET second == TodayStep(single)
       IN  /\ value = now
           /\ second.calls \in {<<>>, <<value>>}
           /\ second.state = single
           /\ Len(emitted) + Len(second.calls) = 1

\* the first Today click has notified today, and a second one notifies it
\* again
C18_Witness ==
    /\ mounted = "DateOverlay"
    /\ lastOp.op = "selectToday"
    /\ ~showTimeSelect
    /\ InBounds(now)
    /\ single.selectedDate = now
    /\ value = now
    /\ emitted = <<now>>
    /\ TodayStep(single).calls = <<now>>

\* the parts of C18 about the value and the state
C18_SameValueAndState ==
    (/\ mounted = "DateOverlay"
     /\ lastOp.op = "selectToday"
     /\ ~showTimeSelect
     /\ InBounds(now))
    => LET second == TodayStep(single)
       IN  /\ value = now
           /\ second.calls = <<value>>
           /\ second.state = single

\* a fresh DateOverlay seeded with value v shows v as selected and displayed
\* date in the days view, on its first render and after its value effect
SeededWith(v) ==
    LET first   == DO_InitialState(v)
        settled == DO_SyncValue(first, v)
    IN  /\ first.selectedDate = v
        /\ first.currentDate = v
        /\ first.view = "days"
        /\ settled.selectedDate = v
        /\ settled.currentDate = v
        /\ settled.view = "days"

\* C19: every value a single calendar commits through onChange, passed as
\* value to a fresh instance, becomes both the selected date and the
\* displayed date of that instance, in the days view.
C19_RoundTrip ==
    \A i \in DOMAIN emitted : SeededWith(emitted[i])

\* a day combined with a picked time was committed and seeds a fresh
\* instance with itself
C19_Witness ==
    /\ lastOp.op = "selectTime"
    /\ emitted # <<>>
    /\ emitted[1] # startOfDay(emitted[1])
    /\ SeededWith(emitted[1])

\* C20: for a positive interval, generateTimeOptions returns exactly the
\* times minTime + k * interval (k = 0, 1, ...) that do not exceed maxTime,
\* in strictly ascending order without duplicates: the first option is
\* minTime, maxTime is the last option when it lies on a step, and the list
\* is empty when minTime is after maxTime.
C20_TimeOptions ==
    (timeList.pc = "done" /\ timeList.timeInterval >= 1)
    => LET first   == MinutesOf(timeList.minTime)
           last    == MinutesOf(timeList.maxTime)
           step    == timeList.timeInterval
           options == timeList.options
           count   == IF first > last THEN 0 ELSE (last - first) \div step + 1
       IN  /\ Len(options) = count
           /\ \A k \in 1..count :
                  /\ MinutesOf(options[k]) = first + (k - 1) * step
                  /\ options[k][2] \in 0..59
           /\ \A j, k \in 1..Len(options) :
                  j < k => MinutesOf(options[j]) < MinutesOf(options[k])
           /\ \A k \in 1..Len(options) : MinutesOf(options[k]) <= last
           /\ first <= last => options[1] = timeList.minTime
           /\ (first <= last /\ (last - first) % step = 0)
              => options[Len(options)] = timeList.maxTime
           /\ first > last => options = <<>>

\* a returned list of several options that starts at minTime and ends at
\* maxTime
C20_Witness ==
    /\ timeList.pc = "done"
    /\ timeList.timeInterval >= 1
    /\ Len(timeList.options) >= 3
    /\ timeList.options[1] = timeList.minTime
    /\ timeList.options[Len(timeList.options)] = timeList.maxTime

\* a call with minTime after maxTime has returned no option
C20_WitnessEmpty ==
    /\ timeList.pc = "done"
    /\ MinutesOf(timeList.minTime) > MinutesOf(timeList.maxTime)
    /\ timeList.options = <<>>

\* C21: for every minTime, maxTime and every integer timeInterval a call of
\* generateTimeOptions terminates: it eventually returns its list.
C21_Terminates == <>(timeList.pc = "done")

\* a call with a non-positive interval and minTime not after maxTime has
\* filled the memory without its index ever passing endMinutes
C21_Witness ==
    /\ timeList.pc = "crashed"
    /\ timeList.timeInterval <= 0
    /\ timeList.i <= MinutesOf(timeList.minTime)
    /\ Len(timeList.options) = MaxOptions

\* every pass through the loop body moves the index towards endMinutes
C21_IndexAdvances ==
    [][(timeList.pc = "loop" /\ timeList'.pc = "loop")
       => timeList'.i > timeList.i]_vars

\* with a positive interval every call returns
C21_PositiveTerminates ==
    timeList.timeInterval >= 1 ~> timeList.pc = "done"

\* C22: whatever new Date() returns, the preset 'This Week' yields as start
\* 00:00 of the latest Sunday on or before now and as end the last
\* millisecond of the first Saturday on or after now: start <= now <= end,
\* and the range covers exactly seven calendar days.
C22_ThisWeek ==
    [][(lastOp'.op = "preset" /\ lastOp'.side = "This Week")
       => LET s == localStartDate'
              e == localEndDate'
          IN  /\ getDay(s) = 0
              /\ TimeKey(s) = 0
              /\ Ordinal(now) - Ordinal(s) \in 0..6
              /\ getDay(e) = 6
              /\ TimeKey(e) = TimeKey(D(2024, 0, 1, 23, 59, 59999))
              /\ Ordinal(e) - Ordinal(now) \in 0..6
              /\ ~isAfter(s, now)
              /\ ~isAfter(now, e)
              /\ Ordinal(e) - Ordinal(s) + 1 = 7]_vars

\* on Wednesday 31 January 2024 the preset has selected Sunday 28 January
\* 00:00 to Saturday 3 February 23:59:59.999
C22_Witness ==
    /\ lastOp.op = "preset"
    /\ lastOp.side = "This Week"
    /\ now = Clock
    /\ localStartDate = D(2024, 0, 28, 0, 0, 0)
    /\ localEndDate = D(2024, 1, 3, 23, 59, 59999)

\* on a Sunday the week starts that day, on a Saturday it ends that day
C22_WitnessEnds ==
    /\ lastOp.op = "preset"
    /\ lastOp.side = "This Week"
    /\ \/ isSameDay(localStartDate, now)
       \/ isSameDay(localEndDate, now)

\* the date selectMonth / selectYear of the single calendar asks for
Requested(op, s) ==
    IF op.op = "selectMonth" THEN setMonth(s.currentDate, op.n)
    ELSE setFullYear(s.currentDate, op.n)

\* C23: in the single calendar selectMonth(index), index in 0..11, and
\* selectYear(year) of a selectable year never reject: afterwards the view is
\* the days view and currentDate lies within [start of the day of min, end
\* of the day of max]: it is the requested date, or min when that date is
\* before min, or max when it is after max.
C23_SelectSnaps ==
    [][(/\ mounted = "DateOverlay"
        /\ \/ lastOp'.op = "selectMonth"
           \/ lastOp'.op = "selectYear" /\ DO_isYearSelectable(lastOp'.n))
       => LET req == Requested(lastOp', single)
          IN  /\ single'.view = "days"
              /\ InBounds(single'.currentDate)
              /\ single'.currentDate =
                     IF BeforeMin(req) THEN startOfDay(minDate)
                     ELSE IF AfterMax(req) THEN endOfDay(maxDate)
                     ELSE req]_vars

\* a month after the bounds was selected in the months view: the calendar
\* shows the days of the month of max
C23_Witness ==
    /\ mounted = "DateOverlay"
    /\ lastOp.op = "selectMonth"
    /\ lastOp.n = 11
    /\ maxDate = TightMax
    /\ single.view = "days"
    /\ single.currentDate = endOfDay(TightMax)

\* a selectable year was selected and the date was snapped to min
C23_WitnessYear ==
    /\ mounted = "DateOverlay"
    /\ lastOp.op = "selectYear"
    /\ DO_isYearSelectable(lastOp.n)
    /\ single.view = "days"
    /\ IsDate(minDate)
    /\ single.currentDate = startOfDay(minDate)

\* a month or a year was selected in a grid of the range calendar
GridSelected(op) ==
    mounted = "DateRangeOverlay" /\ op.op \in {"selectMonth", "selectYear"}

\* C24: in the range calendar, after selectMonth or selectYear on either
\* side, each of leftCurrentDate and rightCurrentDate that the step has
\* written lies within [start of the day of min, end of the day of max].
C24_GridSelectInBounds ==
    [][GridSelected(lastOp')
       => /\ overlay'.leftCurrentDate # overlay.leftCurrentDate
                => InBounds(overlay'.leftCurrentDate)
          /\ overlay'.rightCurrentDate # overlay.rightCurrentDate
                => InBounds(overlay'.rightCurrentDate)]_vars

\* a month was selected on the left side, the left calendar shows a month
\* within the bounds and the right calendar a date after max
C24_Witness ==
    /\ GridSelected(lastOp)
    /\ lastOp.op = "selectMonth"
    /\ lastOp.side = "left"
    /\ InBounds(overlay.leftCurrentDate)
    /\ AfterMax(overlay.rightCurrentDate)

\* a month was selected on the right side and the left calendar shows a date
\* before min
C24_WitnessLeftBeforeMin ==
    /\ GridSelected(lastOp)
    /\ lastOp.side = "right"
    /\ BeforeMin(overlay.leftCurrentDate)

\* the date of the side that was clicked is within the bounds whenever the
\* other side's date was not rewritten in the same step
C24_ClickedSideInBounds ==
    [][GridSelected(lastOp')
       => /\ (/\ lastOp'.side = "left"
              /\ overlay'.leftCurrentDate # overlay.leftCurrentDate)
                => InBounds(overlay'.leftCurrentDate)
          /\ (/\ lastOp'.side = "right"
              /\ overlay'.rightCurrentDate # overlay.rightCurrentDate
              /\ overlay'.leftCurrentDate = overlay.leftCurrentDate
              /\ lastOp'.op = "selectMonth")
                => InBounds(overlay'.rightCurrentDate)]_vars

\* the month (counted from year 0) a grid selection on the right side asks
\* for: the clicked month of the displayed year, or the displayed month of
\* the clicked year
RequestedMonth(op, o) ==
    IF op.op = "selectMonth" THEN o.rightCurrentDate.y * 12 + op.n
    ELSE op.n * 12 + o.rightCurrentDate.m

\* a month, or a selectable year, was selected on the right side, and the
\* month asked for is at or before the month the left calendar displays
RightAtOrBeforeLeft(op, o) ==
    /\ GridSelected(op)
    /\ op.side = "right"
    /\ op.op = "selectYear" => isYearSelectable(op.n)
    /\ RequestedMonth(op, o) <= MonthOrd(o.leftCurrentDate)

\* C25: on the right side of the range calendar, selectMonth / selectYear
\* asking for a month at or before the month the left calendar displays is
\* never rejected: afterwards the right calendar shows the requested month
\* and the left calendar the month immediately before it.
C25_RightPullsLeft ==
    [][RightAtOrBeforeLeft(lastOp', overlay)
       => /\ MonthOrd(overlay'.rightCurrentDate) = RequestedMonth(lastOp', overlay)
          /\ MonthOrd(overlay'.leftCurrentDate)
                 = RequestedMonth(lastOp', overlay) - 1]_vars

\* the left calendar's year was selected on the right side while the
\* calendars showed December and January: the left calendar was not moved
\* and the right one still shows January of the next year
C25_Witness ==
    /\ GridSelected(lastOp)
    /\ lastOp.op = "selectYear"
    /\ lastOp.side = "right"
    /\ isYearSelectable(lastOp.n)
    /\ overlay.rightView = "days"
    /\ getYear(overlay.leftCurrentDate) = lastOp.n
    /\ getYear(overlay.rightCurrentDate) = lastOp.n + 1
    /\ MonthOrd(overlay.rightCurrentDate) = MonthOrd(overlay.leftCurrentDate) + 1

\* February was selected on the right side while the left calendar showed
\* March and the right one 30 April: the calendars show February and March
C25_WitnessOverflow ==
    /\ GridSelected(lastOp)
    /\ lastOp.op = "selectMonth"
    /\ lastOp.side = "right"
    /\ lastOp.n = 1
    /\ ~IsDate(minDate)
    /\ overlay.leftCurrentDate = Day(2024, 1, 1)
    /\ overlay.rightCurrentDate = Day(2024, 2, 1)

\* the same for selectMonth alone, when the date setMonth builds is within
\* the bounds
C25_RightMonthPullsLeft ==
    [][(/\ RightAtOrBeforeLeft(lastOp', overlay)
        /\ lastOp'.op = "selectMonth"
        /\ InBounds(setMonth(overlay.rightCurrentDate, lastOp'.n)))
       => /\ MonthOrd(overlay'.rightCurrentDate) = RequestedMonth(lastOp', overlay)
          /\ MonthOrd(overlay'.leftCurrentDate)
                 = RequestedMonth(lastOp', overlay) - 1]_vars

\* selectMonth on the right side does what is claimed when the displayed day
\* of the month exists in the month asked for and that date is within the
\* bounds
C25_RightMonthWithoutOverflow ==
    [][(/\ RightAtOrBeforeLeft(lastOp', overlay)
        /\ lastOp'.op = "selectMonth"
        /\ overlay.rightCurrentDate.d
               <= DaysInMonth(overlay.rightCurrentDate.y, lastOp'.n)
        /\ InBounds(setMonth(overlay.rightCurrentDate, lastOp'.n)))
       => /\ MonthOrd(overlay'.rightCurrentDate) = RequestedMonth(lastOp', overlay)
          /\ MonthOrd(overlay'.leftCurrentDate)
                 = RequestedMonth(lastOp', overlay) - 1]_vars

\* the year is below the year of min or above the year of max
YearOutsideBounds(year) ==
    \/ IsDate(minDate) /\ year < getYear(startOfDay(minDate))
    \/ IsDate(maxDate) /\ year > getYear(endOfDay(maxDate))

\* C26: selectYear(year) with a year below the year of min or above the year
\* of max changes no field of the calendar's state and notifies nothing, in
\* the single calendar and on both sides of the range calendar.
C26_YearOutsideIgnored ==
    [][(lastOp'.op = "selectYear" /\ YearOutsideBounds(lastOp'.n))
       => /\ single' = single
          /\ overlay' = overlay
          /\ emitted' = <<>>
          /\ notified' = <<>>
          /\ value' = value
          /\ startDate' = startDate
          /\ endDate' = endDate]_vars

\* a year above the year of max was clicked in the years grid of the single
\* calendar, which still shows the grid
C26_Witness ==
    /\ mounted = "DateOverlay"
    /\ lastOp.op = "selectYear"
    /\ YearOutsideBounds(lastOp.n)
    /\ lastOp.n > getYear(single.currentDate)
    /\ single.view = "years"

\* the same on the right side of the range calendar, for a year below min's
C26_WitnessRange ==
    /\ mounted = "DateRangeOverlay"
    /\ lastOp.op = "selectYear"
    /\ lastOp.side = "right"
    /\ YearOutsideBounds(lastOp.n)
    /\ lastOp.n < getYear(overlay.rightCurrentDate)
    /\ overlay.rightView = "years"

\* and on the left side
C26_WitnessRangeLeft ==
    /\ mounted = "DateRangeOverlay"
    /\ lastOp.op = "selectYear"
    /\ lastOp.side = "left"
    /\ YearOutsideBounds(lastOp.n)
    /\ overlay.leftView = "years"

\* the step of one month or one year that navigate(direction) asks for
StepOf(direction) == IF direction = "prev" THEN 0 - 1 ELSE 1

\* the month (counted from year 0) overlaps the bounds on the side the
\* navigation moves to
MonthReachable(direction, month) ==
    IF direction = "prev"
    THEN ~IsDate(minDate) \/ MonthOrd(minDate) <= month
    ELSE ~IsDate(maxDate) \/ month <= MonthOrd(maxDate)

YearWithinBounds(year) ==
    /\ ~IsDate(minDate) \/ getYear(minDate) <= year
    /\ ~IsDate(maxDate) \/ year <= getYear(maxDate)

C27_WitnessMonths ==
    /\ mounted = "DateOverlay"
    /\ lastOp.op = "navigate"
    /\ lastOp.side = "next"
    /\ single.view = "months"
    /\ IsDate(maxDate)
    /\ single.currentDate = Day(getYear(maxDate), 0, 1)

\* the window of twelve years of the calendar that navigate acts on: the
\* single calendar's, or that of the active side of the range calendar
NavigatedWindow(s, o) ==
    IF mounted = "DateOverlay" THEN s.yearRange
    ELSE IF o.activeSpecialView = "left" THEN o.leftYearRange
    ELSE o.rightYearRange

\* navigate acts on a years grid
YearsGridNavigated(op) ==
    /\ op.op = "navigate"
    /\ \/ mounted = "DateOverlay" /\ single.view = "years"
       \/ /\ mounted = "DateRangeOverlay"
          /\ \/ overlay.activeSpecialView = "left" /\ overlay.leftView = "years"
             \/ overlay.activeSpecialView = "right" /\ overlay.rightView = "years"

\* a step of navigate in a years grid shifts the window by twelve years
\* exactly when the first year of the next window is not above the year of
\* max, resp. the first year of the previous window not below the year of min
YearWindowShifts ==
    YearsGridNavigated(lastOp')
    => LET w == NavigatedWindow(single, overlay)
           w2 == NavigatedWindow(single', overlay')
           allowed ==
               IF lastOp'.side = "next"
               THEN ~IsDate(maxDate) \/ w.end + 1 <= getYear(maxDate)
               ELSE ~IsDate(minDate) \/ w.start - 12 >= getYear(minDate)
           by == 12 * StepOf(lastOp'.side)
       IN  IF allowed
           THEN w2 = [start |-> w.start + by, end |-> w.end + by]
           ELSE w2 = w

\* C28: in the years view of the single calendar and of the active side of
\* the range calendar, navigate(next) shifts the window of twelve years
\* forward by 12 if and only if window.end + 1 <= year of max (or there is
\* no max), and navigate(prev) shifts it back by 12 if and only if
\* window.start - 12 >= year of min (or there is no min), the window being
\* that of the calendar navigated; otherwise the window is unchanged.
C28_YearWindow == [][YearWindowShifts]_vars

\* the arrow to the next years was clicked in the years grid of the left
\* calendar, the first year of the next window is not above the year of
\* max, and the window has not moved
C28_Witness ==
    /\ mounted = "DateRangeOverlay"
    /\ lastOp.op = "navigate"
    /\ lastOp.side = "next"
    /\ overlay.activeSpecialView = "left"
    /\ overlay.leftView = "years"
    /\ IsDate(maxDate)
    /\ overlay.leftYearRange = getYearRange(overlay.leftCurrentDate)
    /\ overlay.leftYearRange.end + 1 <= getYear(maxDate)

\* the arrow to the previous years was clicked in the years grid of the
\* right calendar, whose window is twelve years or more above the year of
\* min, and the window has not moved
C28_WitnessRight ==
    /\ mounted = "DateRangeOverlay"
    /\ lastOp.op = "navigate"
    /\ lastOp.side = "prev"
    /\ overlay.activeSpecialView = "right"
    /\ overlay.rightView = "years"
    /\ IsDate(minDate)
    /\ overlay.rightYearRange = getYearRange(overlay.rightCurrentDate)
    /\ overlay.rightYearRange.start - 12 >= getYear(minDate)

\* the single calendar does what is claimed
C28_SingleYearWindow == [][mounted = "DateOverlay" => YearWindowShifts]_vars

\* the single calendar has shifted its window forward
C28_WitnessSingle ==
    /\ mounted = "DateOverlay"
    /\ lastOp.op = "navigate"
    /\ lastOp.side = "next"
    /\ single.view = "years"
    /\ IsDate(maxDate)
    /\ single.yearRange.start = DO_yearRange(single.currentDate).start + 12

\* C29: the view toggles of the single calendar form the cycle days ->
\* months -> years -> days: a toggle in the days view leads to the months
\* view, one in the months view to the years view, and one in the years view
\* back to the days view, so that the days view is reached from the years
\* view by toggling alone.
C29_ToggleCycle ==
    /\ (single.view = "days") ~> (single.view = "months")
    /\ (single.view = "months") ~> (single.view = "years")
    /\ (single.view = "years") ~> (single.view = "days")

\* the years view was entered from the months view by a toggle
C29_Witness ==
    /\ mounted = "DateOverlay"
    /\ lastOp.op = "toggleView"
    /\ lastOp.side = "years"
    /\ single.view = "years"
    /\ navBudget < MaxNavigations

\* no toggle of the single calendar leads to the days view: the month button
\* leads to the months view and the year button to the years view, from
\* every view
C29_TogglesNeverToDays ==
    [][(mounted = "DateOverlay" /\ lastOp'.op = "toggleView")
       => single'.view = lastOp'.side]_vars

\* the first two legs of the cycle, for a user who keeps clicking both
\* buttons
C29_DaysToMonthsToYears ==
    /\ (single.view = "days") ~> (single.view = "months")
    /\ (single.view = "months") ~> (single.view = "years")

\* the marker of the range calendar names the side that is not in the days
\* view, and is null when both sides are in the days view
MarkerNamesSpecialSide(o) ==
    /\ ~(o.leftView # "days" /\ o.rightView # "days")
    /\ o.activeSpecialView = "null"
           <=> (o.leftView = "days" /\ o.rightView = "days")
    /\ o.leftView # "days" => o.activeSpecialView = "left"
    /\ o.rightView # "days" => o.activeSpecialView = "right"

\* C30: in every reachable state of the range calendar at most one side is
\* in a view other than the days view, and activeSpecialView names exactly
\* that side: it is null if and only if both sides are in the days view;
\* every operation that returns a side to the days view (toggle from the
\* years view, selectMonth, an accepted selectYear) clears it.
C30_OneSpecialView ==
    /\ [](OverlayShown => MarkerNamesSpecialSide(overlay))
    /\ [][(/\ OverlayShown
           /\ \E side \in {"left", "right"} :
                  /\ ViewOf(side) # "days"
                  /\ (IF side = "left" THEN overlay'.leftView
                      ELSE overlay'.rightView) = "days")
          => overlay'.activeSpecialView = "null"]_vars

\* the header of the right calendar was clicked in its years view: both
\* sides show days again and the marker is null
C30_Witness ==
    /\ OverlayShown
    /\ lastOp.op = "toggleView"
    /\ lastOp.side = "right"
    /\ overlay.rightView = "days"
    /\ overlay.leftView = "days"
    /\ overlay.activeSpecialView = "null"

\* a month was selected in the months grid of the left calendar
C30_WitnessMonth ==
    /\ OverlayShown
    /\ lastOp.op = "selectMonth"
    /\ lastOp.side = "left"
    /\ overlay.leftView = "days"
    /\ overlay.activeSpecialView = "null"

\* the years grid of the left calendar is shown alone
C30_WitnessYears ==
    /\ OverlayShown
    /\ overlay.leftView = "years"
    /\ overlay.rightView = "days"
    /\ overlay.activeSpecialView = "left"

\* the render of a day button has just called isInSelectedRange
Highlighted(op) == op.op = "isInSelectedRange"

\* C31: when both a start and an end are selected, isInSelectedRange(day) is
\* true exactly for the days whose calendar day lies in [calendar day of
\* start, calendar day of end], both included, whatever time of day start,
\* end and day carry.
C31_RangeByDay ==
    [][(/\ Highlighted(lastOp')
        /\ IsDate(overlay.selectedStartDate)
        /\ IsDate(overlay.selectedEndDate))
       => (lastOp'.side = "in"
             <=> /\ DayKey(overlay.selectedStartDate) <= DayKey(lastOp'.date)
                 /\ DayKey(lastOp'.date) <= DayKey(overlay.selectedEndDate))]_vars

\* the end is 14 February 06:00 and the day asked for is 14 February 23:00,
\* an instant after the end: the day is in the range
C31_Witness ==
    /\ Highlighted(lastOp)
    /\ lastOp.side = "in"
    /\ lastOp.date = D(2024, 1, 14, 23, 0, 0)
    /\ overlay.selectedStartDate = D(2024, 0, 25, 8, 0, 0)
    /\ overlay.selectedEndDate = D(2024, 1, 14, 6, 0, 0)

\* the start is 25 January 08:00 and the day asked for is 25 January 00:00
C31_WitnessStartDay ==
    /\ Highlighted(lastOp)
    /\ lastOp.side = "in"
    /\ lastOp.date = Day(2024, 0, 25)
    /\ overlay.selectedStartDate = D(2024, 0, 25, 8, 0, 0)
    /\ IsDate(overlay.selectedEndDate)

\* a day after the end is not in the range
C31_WitnessOut ==
    /\ Highlighted(lastOp)
    /\ lastOp.side = "out"
    /\ lastOp.date = Day(2024, 1, 15)
    /\ overlay.selectedEndDate = D(2024, 1, 14, 6, 0, 0)

\* the calendar day of a lies between those of b and c, in either order
DayBetween(a, b, c) ==
    \/ DayKey(b) <= DayKey(a) /\ DayKey(a) <= DayKey(c)
    \/ DayKey(c) <= DayKey(a) /\ DayKey(a) <= DayKey(b)

\* what C32 requires of isInSelectedRange(day) in display o
PreviewByDay(o, day) ==
    IF IsDate(o.hoverDate)
    THEN DayBetween(day, o.selectedStartDate, o.hoverDate)
    ELSE isSameDay(day, o.selectedStartDate)

\* C32: when only a start is selected: if a hover date is recorded,
\* isInSelectedRange(day) is true exactly for the days between the start's
\* day and the hover's day, both included, in chronological order whichever
\* comes first; if no hover date is recorded it is true only for the start's
\* own day.
C32_PreviewSpan ==
    [][(/\ Highlighted(lastOp')
        /\ IsDate(overlay.selectedStartDate)
        /\ ~IsDate(overlay.selectedEndDate))
       => (lastOp'.side = "in" <=> PreviewByDay(overlay, lastOp'.date))]_vars

\* the start is 25 January 08:00, the pointer is on 14 February, and the
\* button of 25 January is rendered as outside the previewed span
C32_Witness ==
    /\ Highlighted(lastOp)
    /\ lastOp.side = "out"
    /\ lastOp.date = Day(2024, 0, 25)
    /\ overlay.selectedStartDate = D(2024, 0, 25, 8, 0, 0)
    /\ ~IsDate(overlay.selectedEndDate)
    /\ overlay.selectionPhase = "end"
    /\ overlay.hoverDate = Day(2024, 1, 14)

\* the same claim for the displays the pointer produces from a start at
\* midnight: the phase is 'end' whenever a hover date is recorded
C32_PreviewSpanFromMidnight ==
    [][(/\ Highlighted(lastOp')
        /\ IsDate(overlay.selectedStartDate)
        /\ ~IsDate(overlay.selectedEndDate)
        /\ TimeKey(overlay.selectedStartDate) = 0
        /\ TimeKey(lastOp'.date) = 0
        /\ IsDate(overlay.hoverDate) => overlay.selectionPhase = "end")
       => (lastOp'.side = "in" <=> PreviewByDay(overlay, lastOp'.date))]_vars

\* the same claim for the buttons of the grid (days at midnight), whatever
\* the start
C32_PreviewSpanOfButtons ==
    [][(/\ Highlighted(lastOp')
        /\ IsDate(overlay.selectedStartDate)
        /\ ~IsDate(overlay.selectedEndDate)
        /\ TimeKey(lastOp'.date) = 0
        /\ IsDate(overlay.hoverDate) => overlay.selectionPhase = "end")
       => (lastOp'.side = "in" <=> PreviewByDay(overlay, lastOp'.date))]_vars

\* a hover date is recorded in phase 'start' with a start and no end
C32_WitnessStaleHover ==
    /\ IsDate(overlay.selectedStartDate)
    /\ ~IsDate(overlay.selectedEndDate)
    /\ overlay.selectionPhase = "start"
    /\ IsDate(overlay.hoverDate)

\* the selection and the displayed months of the range overlay
SelectionOf(o) ==
    <<o.selectedStartDate, o.selectedEndDate, o.selectionPhase,
      o.leftCurrentDate, o.rightCurrentDate>>

\* C33: hover(date) records hoverDate = date only while the phase is 'end' and
\* an anchor exists and otherwise leaves hoverDate unchanged; the pointer
\* leaving the grid clears hoverDate; neither changes selectedStartDate,
\* selectedEndDate, the phase or the displayed months, and neither notifies
\* the consumer.
C33_HoverFrame ==
    [][/\ lastOp'.op = "hover"
          => /\ overlay'.hoverDate =
                   IF overlay.selectionPhase = "end" /\ IsDate(overlay.selectedStartDate)
                   THEN lastOp'.date
                   ELSE overlay.hoverDate
             /\ SelectionOf(overlay') = SelectionOf(overlay)
             /\ notified' = <<>>
             /\ committed' = <<>>
       /\ lastOp'.op = "leave"
          => /\ overlay'.hoverDate = Null
             /\ SelectionOf(overlay') = SelectionOf(overlay)
             /\ notified' = <<>>
             /\ committed' = <<>>]_vars

\* a hover in phase 'end' has recorded the day under the pointer
C33_Witness ==
    /\ lastOp.op = "hover"
    /\ overlay.selectionPhase = "end"
    /\ IsDate(overlay.selectedStartDate)
    /\ overlay.hoverDate = lastOp.date

\* a hover in phase 'start' has left a recorded hover date as it was
C33_WitnessIgnored ==
    /\ lastOp.op = "hover"
    /\ overlay.selectionPhase = "start"
    /\ IsDate(overlay.hoverDate)
    /\ overlay.hoverDate # lastOp.date

\* the pointer has left the grid of a started selection
C33_WitnessLeave ==
    /\ lastOp.op = "leave"
    /\ overlay.selectionPhase = "end"
    /\ overlay.hoverDate = Null

\* C34: in every reachable state of the range overlay the phase 'end' implies
\* a selected start, under any sequence of picks and of startDate / endDate
\* prop updates, so that a pick in phase 'end' never finds the start missing.
C34_EndHasAnchor ==
    overlay.selectionPhase = "end" => IsDate(overlay.selectedStartDate)

\* a new startDate prop arrived after a selection was completed by picks: the
\* end of a selection is awaited and the start is the prop
C34_Witness ==
    /\ lastOp.op = "props"
    /\ overlay.selectionPhase = "end"
    /\ overlay.selectedStartDate = startDate
    /\ IsDate(startDate)
    /\ IsDate(overlay.selectedEndDate)
    /\ overlay.selectedEndDate # endDate

\* the startDate prop was cleared while the end of a selection was awaited
C34_WitnessCleared ==
    /\ lastOp.op = "props"
    /\ startDate = Null
    /\ overlay.selectionPhase = "start"
    /\ overlay.selectedStartDate = Null
    /\ IsDate(overlay.hoverDate)

\* a pick in phase 'end' took the branch that replaces the start
C34_WitnessPick ==
    /\ lastOp.op = "pick"
    /\ overlay.selectionPhase = "start"
    /\ overlay.selectedStartDate = lastOp.date
    /\ overlay.selectedEndDate = Null

\* a pair of endpoints are both dates and the end is before the start
Reversed(s, e) == IsDate(s) /\ IsDate(e) /\ isBefore(e, s)

\* the pick of a day within the bounds and before the start, while the end of
\* a selection is awaited
EarlierPick(o, op) ==
    /\ op.op = "pick"
    /\ isDateInRange(op.date)
    /\ op.side = "end"
    /\ isBefore(op.date, o.selectedStartDate)

\* C35: starting from an empty selection or from a supplied pair with
\* start <= end, after any sequence of picks the range overlay never holds,
\* and never passes to onChange, a pair whose end is before its start; the
\* end kept when an earlier day replaces the start is after the new start.
C35_PairOrdered ==
    /\ [](/\ ~Reversed(overlay.selectedStartDate, overlay.selectedEndDate)
          /\ \A i \in DOMAIN notified :
                ~Reversed(notified[i].startDate, notified[i].endDate))
    /\ [][(EarlierPick(overlay, lastOp') /\ IsDate(overlay'.selectedEndDate))
            => /\ overlay'.selectedStartDate = lastOp'.date
               /\ overlay'.selectedEndDate = overlay.selectedEndDate
               /\ isAfter(overlay'.selectedEndDate, lastOp'.date)
               /\ notified' = <<Call(lastOp'.date, overlay.selectedEndDate)>>]_vars

\* 10 January was picked while 25 January .. 14 February was held and the
\* end was awaited: the pair is 10 January .. 14 February
C35_Witness ==
    /\ lastOp = Op("pick", "end", Day(2024, 0, 10), 0)
    /\ overlay.selectedStartDate = Day(2024, 0, 10)
    /\ IsDate(overlay.selectedEndDate)
    /\ notified = <<Call(Day(2024, 0, 10), overlay.selectedEndDate)>>

\* the start's own day was picked at midnight while the start was at 18:00
\* and the end at 20:00 of that day
C35_WitnessSameDay ==
    /\ lastOp = Op("pick", "end", Day(2024, 0, 25), 0)
    /\ overlay.selectedStartDate = Day(2024, 0, 25)
    /\ overlay.selectedEndDate = D(2024, 0, 25, 20, 0, 0)

\* a pair was completed by two picks from an empty selection
C35_WitnessFromEmpty ==
    /\ startDate = Undefined
    /\ lastOp.op = "pick"
    /\ lastOp.side = "end"
    /\ overlay.selectedEndDate = lastOp.date
    /\ isBefore(overlay.selectedStartDate, lastOp.date)

\* the endpoints of the pairs passed to DateRangePickerInput's onChange in the
\* last step
CommittedEndpoints ==
    {committed[i].startDate : i \in DOMAIN committed}
        \cup {committed[i].endDate : i \in DOMAIN committed}

\* the endpoints of the ranges the preset buttons build
PresetEndpoints ==
    {getRange(label, now).startDate : label \in PresetLabels}
        \cup {getRange(label, now).endDate : label \in PresetLabels}

\* C36: every non-null endpoint the range picker passes to the consumer's
\* onChange lies within the normalized bounds [min, max], whatever sequence
\* of calendar picks, preset clicks and Apply produced it.
C36_CommittedInBounds ==
    \A e \in CommittedEndpoints : IsDate(e) => isDateInRange(e)

\* Apply has committed the range of the preset 'Last Year', which ends before
\* the lower bound
C36_Witness ==
    /\ lastOp.op = "apply"
    /\ committed = <<getRange("Last Year", now)>>
    /\ IsDate(normalizedMinDate)
    /\ isBefore(committed[1].endDate, normalizedMinDate)

\* an endpoint committed outside the bounds is an endpoint of a preset
C36_OutsideOnlyByPreset ==
    \A e \in CommittedEndpoints :
        IsDate(e) => isDateInRange(e) \/ e \in PresetEndpoints

\* Apply has committed a pair of picked days
C36_WitnessPicked ==
    /\ lastOp.op = "apply"
    /\ committed = <<Call(Day(2024, 0, 25), Day(2024, 1, 14))>>
    /\ extStartDate = Day(2024, 0, 25)

\* the selections of the single calendar and of the range overlay
Selections ==
    <<single.selectedDate, single.selectedTime, overlay.selectedStartDate,
      overlay.selectedEndDate, overlay.selectionPhase>>

\* no onChange of a calendar or of a picker is called in the step
NobodyNotified == notified' = <<>> /\ emitted' = <<>> /\ committed' = <<>>

\* the handlers that display another month, year window or view
DisplayOps == {"navigate", "toggleView", "selectMonth", "selectYear"}

\* the handlers that select
SelectingOps == {"pick", "select", "selectToday", "selectTime"}

\* C37: navigation, the view toggles, selectMonth and selectYear, on the
\* single calendar and on both sides of the range overlay, never change the
\* selection (selectedDate, selectedTime; selectedStartDate, selectedEndDate,
\* phase) and never notify the consumer; only the picks, selectToday and
\* selectTime do.
C37_DisplayFrame ==
    [][/\ lastOp'.op \in DisplayOps => Selections' = Selections /\ NobodyNotified
       /\ (Selections' # Selections \/ ~NobodyNotified)
             => lastOp'.op \in SelectingOps]_vars

\* the single calendar has selected a month while a day is selected, and
\* displays another month than that of the selected day
C37_Witness ==
    /\ lastOp.op = "selectMonth"
    /\ mounted = "DateOverlay"
    /\ IsDate(single.selectedDate)
    /\ single.currentDate.m # single.selectedDate.m

\* the range overlay has navigated while the end of a selection was awaited
C37_WitnessRange ==
    /\ lastOp.op = "navigate"
    /\ mounted = "DateRangeOverlay"
    /\ overlay.selectionPhase = "end"
    /\ MonthOrd(overlay.leftCurrentDate) # MonthOrd(overlay.selectedStartDate)

\* a side of the range overlay has selected a year while a pair is selected
C37_WitnessRangeYear ==
    /\ lastOp.op = "selectYear"
    /\ mounted = "DateRangeOverlay"
    /\ IsDate(overlay.selectedEndDate)

\* the single calendar has switched to the years view with a time selected
C37_WitnessToggle ==
    /\ lastOp = Op("toggleView", "years", Null, 0)
    /\ mounted = "DateOverlay"
    /\ single.view = "years"
    /\ single.selectedTime # NoTime

\* the first half alone, for the calendars hosted by the pickers, whose own
\* handlers (Apply, Clear, the keyboard) notify as well
C37_DisplayOpsSilent ==
    [][lastOp'.op \in DisplayOps => Selections' = Selections /\ NobodyNotified]_vars

\* the month the single calendar displays has a day within the bounds
DO_MonthHasSelectableDay(s) ==
    \E d \in 1..DaysInMonth(s.currentDate.y, s.currentDate.m) :
        DO_isDateInRange(Day(s.currentDate.y, s.currentDate.m, d))

\* C38: for a single calendar that starts with currentDate within the bounds
\* (min <= max), in every reachable state whose view is 'days' the month
\* currentDate displays has at least one day within the bounds, after any
\* sequence of navigations, toggles, month / year selections, picks and
\* selectToday.
C38_DaysMonthSelectable ==
    (mounted = "DateOverlay" /\ single.view = "days")
        => DO_MonthHasSelectableDay(single)

\* in the months view the calendar went back to the year of min, which
\* begins before min, and a month before min's was selected: the days view
\* shows min's month
C38_Witness ==
    /\ lastOp.op = "selectMonth"
    /\ single.view = "days"
    /\ minDate = D(2023, 10, 15, 8, 0, 0)
    /\ single.currentDate = DO_normalizedMinDate
    /\ lastOp.n < DO_normalizedMinDate.m

\* a day was picked, the calendar went on by a month and a year was selected
C38_WitnessAfterPick ==
    /\ lastOp.op = "selectYear"
    /\ single.view = "days"
    /\ IsDate(single.selectedDate)
    /\ IsDate(minDate)
    /\ MonthOrd(single.currentDate) # MonthOrd(single.selectedDate)

\* in the months view currentDate is the first of January of min's year,
\* whose month has no day within the bounds
C38_WitnessMonthsView ==
    /\ single.view = "months"
    /\ ~DO_MonthHasSelectableDay(single)

\* the 12-year window before / after the one the years grid shows
PrevWindow(s) == {s.yearRange.start - 12 + i : i \in 0..11}

NextWindow(s) == {s.yearRange.end + 1 + i : i \in 0..11}

HasSelectableYear(window) == \E year \in window : DO_isYearSelectable(year)

\* the years view of a bare single calendar is shown
YearsViewShown == mounted = "DateOverlay" /\ single.view = "years"

\* C39: in the years view of the single calendar the navigation toward a
\* neighbouring 12-year window is enabled whenever that window contains at
\* least one selectable year (a year within [year(min), year(max)]), for
\* prev as for next.
C39_WindowNavEnabled ==
    YearsViewShown
        => /\ HasSelectableYear(PrevWindow(single)) => canNavigateToPrevYearRange(single)
           /\ HasSelectableYear(NextWindow(single)) => canNavigateToNextYearRange(single)

\* min is 1 June 2010 and the years grid shows 2016 .. 2027: the window before
\* it, 2004 .. 2015, holds the selectable years 2010 .. 2015 and the
\* navigation toward it is disabled
C39_Witness ==
    /\ YearsViewShown
    /\ minDate = Day(2010, 5, 1)
    /\ single.yearRange.start = 2016
    /\ \A year \in 2010..2015 : DO_isYearSelectable(year)
    /\ ~canNavigateToPrevYearRange(single)

\* toward the next window the navigation is enabled exactly when that window
\* has a selectable year
C39_NextEnabled ==
    YearsViewShown
        => (HasSelectableYear(NextWindow(single)) <=> canNavigateToNextYearRange(single))

\* toward the previous window the navigation is enabled only when every year
\* of that window is at or after min's year
C39_PrevEnabled ==
    (YearsViewShown /\ IsDate(minDate))
        => (canNavigateToPrevYearRange(single)
              <=> \A year \in PrevWindow(single) : year >= getYear(DO_normalizedMinDate))

\* max is 30 June 2040 and the years grid shows 2028 .. 2039: the navigation
\* toward 2040 .. 2051 is enabled
C39_WitnessNext ==
    /\ YearsViewShown
    /\ maxDate = Day(2040, 5, 30)
    /\ single.yearRange.start = 2028
    /\ canNavigateToNextYearRange(single)

\* the date a calendar displayed before a month selection, and after it
ShownBefore(op) ==
    IF op.side = "" THEN single.currentDate
    ELSE IF op.side = "left" THEN overlay.leftCurrentDate
    ELSE overlay.rightCurrentDate

ShownAfter(op) ==
    IF op.side = "" THEN single'.currentDate
    ELSE IF op.side = "left" THEN overlay'.leftCurrentDate
    ELSE overlay'.rightCurrentDate

\* the date setMonth builds is within the bounds, so that the handler takes it
\* as it is
Unclamped(op) ==
    LET newDate == setMonth(ShownBefore(op), op.n)
    IN  IF op.side = "" THEN DO_SnapIntoBounds(newDate) = newDate
        ELSE SnapIntoBounds(newDate) = newDate

\* a month selection leaves the calendar in the month selected, of the same year
MonthKept(op) ==
    /\ ShownAfter(op).m = op.n
    /\ ShownAfter(op).y = ShownBefore(op).y

\* C40: for every currentDate, those on the 29th, 30th and 31st included, and
\* every month index 0..11, a selectMonth(index) that the bounds do not clamp
\* leaves currentDate in the month index of the same year, on the single
\* calendar and on both sides of the range overlay.
C40_MonthSelected ==
    [][(lastOp'.op = "selectMonth" /\ Unclamped(lastOp')) => MonthKept(lastOp')]_vars

\* the single calendar displayed 31 January 2024 and February was selected:
\* it displays 2 March 2024
C40_Witness ==
    /\ lastOp = Op("selectMonth", "", Null, 1)
    /\ single.currentDate = D(2024, 2, 2, 10, 30, 15000)
    /\ DO_isDateInRange(single.currentDate)

\* the same on the left side of the range overlay
C40_WitnessLeft ==
    /\ lastOp = Op("selectMonth", "left", Null, 1)
    /\ overlay.leftCurrentDate = D(2024, 2, 2, 10, 30, 15000)
    /\ isDateInRange(overlay.leftCurrentDate)

\* the month selected is displayed whenever it has the day of the month of
\* the date displayed before
C40_MonthSelectedWhenDayExists ==
    [][(/\ lastOp'.op = "selectMonth"
        /\ Unclamped(lastOp')
        /\ ShownBefore(lastOp').d
              <= DaysInMonth(ShownBefore(lastOp').y, lastOp'.n))
       => MonthKept(lastOp')]_vars

\* the right side displayed 29 February 2024 and February was selected
C40_WitnessRight ==
    /\ lastOp = Op("selectMonth", "right", Null, 1)
    /\ overlay.rightCurrentDate = D(2024, 1, 29, 10, 30, 15000)

====
